---- MODULE Spec2Model ----
(***************************************************************************)
(* A model of the CSP header library (erictaylor/csp): the value           *)
(* formatter, the keyword config mapper and the policy directive           *)
(* formatter.  A JavaScript string is modelled as a sequence of            *)
(* one-character strings, so that trimming, case conversion, replacement   *)
(* and joining are computed character by character.                        *)
(***************************************************************************)
EXTENDS Integers, Sequences, FiniteSets, TLC

VARIABLES
    call,      \* the library call in progress: [fn, args]; NoCall between calls
    ret,       \* its outcome: [kind, value], kind "return" or "throw"
    policies,  \* configToSourceExpressionList's accumulator `policies` at its end
    stages,    \* for each element of policies, the numbered step (1..9) that pushed it
    sorted,    \* formatPolicyDirectiveList's sorted copy of its clauses
    arguments, \* the caller's argument objects as the call leaves them
    sortOrder, \* the module's array DIRECTIVE_SORT_ORDER
    fetchOrder,        \* the module's array FETCH_DIRECTIVE_CUSTOM_ORDER
    unsafeKeywordMap,  \* the module's object UNSAFE_KEYWORD_MAP
    schemeKeywordMap,  \* the module's object SCHEME_KEYWORD_MAP
    earlier,   \* an earlier call the caller kept: <<[config, outcome]>>, or <<>>
    promises   \* the hashSource calls issued together: [args, ret] each

\* what the modules hold once they are loaded
modules == <<sortOrder, fetchOrder, unsafeKeywordMap, schemeKeywordMap>>

vars == <<call, ret, policies, stages, sorted, arguments, modules, earlier, promises>>

----------------------------------------------------------------------------
(* Bounds of the model *)

\* longest string handed to the value formatter
MaxLen == 3
\* most values handed to formatPolicyDirective
MaxValues == 2
\* most declarations (flags, section keys, list elements) in a PolicyConfig
MaxItems == 2
\* most clauses handed to formatPolicyDirectiveList
MaxClauses == 2

----------------------------------------------------------------------------
(* JavaScript strings *)

\* the ECMAScript WhiteSpace and LineTerminator characters that a TLA+
\* string can hold: space, tab, line feed, carriage return, form feed
WhiteSpace == {" ", "\t", "\n", "\r", "\f"}

IsWhiteSpace(c) == c \in WhiteSpace

UpperCaseLetters == <<"A", "B", "C", "D", "E", "F", "G", "H", "I", "J", "K", "L", "M", "N", "O", "P", "Q", "R", "S", "T", "U", "V", "W", "X", "Y", "Z">>

LowerCaseLetters == <<"a", "b", "c", "d", "e", "f", "g", "h", "i", "j", "k", "l", "m", "n", "o", "p", "q", "r", "s", "t", "u", "v", "w", "x", "y", "z">>

\* Array.prototype.indexOf
IndexOf(seq, x) ==
    LET found == {i \in 1..Len(seq) : seq[i] = x}
    IN IF found = {} THEN -1
       ELSE (CHOOSE i \in found : \A j \in found : i <= j) - 1

Includes(seq, x) == \E i \in 1..Len(seq) : seq[i] = x

\* String.prototype.toLowerCase, one character
ToLowerCaseChar(c) ==
    IF Includes(UpperCaseLetters, c)
    THEN LowerCaseLetters[IndexOf(UpperCaseLetters, c) + 1]
    ELSE c

\* String.prototype.toLowerCase
ToLowerCase(s) == [i \in 1..Len(s) |-> ToLowerCaseChar(s[i])]

\* String.prototype.replace(pattern, replacement) with a one-character string
\* pattern: only the first occurrence is replaced
Replace(s, pattern, replacement) ==
    IF Includes(s, pattern)
    THEN LET i == IndexOf(s, pattern) + 1
         IN SubSeq(s, 1, i - 1) \o replacement \o SubSeq(s, i + 1, Len(s))
    ELSE s

\* the positions of a string that hold no whitespace
NonWhiteSpace(s) == {i \in 1..Len(s) : ~IsWhiteSpace(s[i])}

\* String.prototype.trimStart
TrimStart(s) ==
    IF NonWhiteSpace(s) = {} THEN <<>>
    ELSE SubSeq(s, CHOOSE i \in NonWhiteSpace(s) : \A j \in NonWhiteSpace(s) : i <= j,
                Len(s))

\* String.prototype.trimEnd
TrimEnd(s) ==
    IF NonWhiteSpace(s) = {} THEN <<>>
    ELSE SubSeq(s, 1, CHOOSE i \in NonWhiteSpace(s) : \A j \in NonWhiteSpace(s) : i >= j)

\* a mutant of Trim: only leading whitespace is removed
TrimLeadingOnly(s) == TrimStart(s)

\* String.prototype.trim
Trim(s) == TrimEnd(TrimStart(s))

\* Array.prototype.join
RECURSIVE Join(_, _)
Join(seq, sep) ==
    IF seq = <<>> THEN <<>>
    ELSE IF Len(seq) = 1 THEN seq[1]
    ELSE seq[1] \o sep \o Join(Tail(seq), sep)

\* the strings over `alphabet` of length at most n
StringsOver(alphabet, n) == UNION {[1..k -> alphabet] : k \in 0..n}

----------------------------------------------------------------------------
(* value.ts: the source-expression values *)

HASH_ALGORITHMS == <<<<"S", "H", "A", "-", "2", "5", "6">>, <<"S", "H", "A", "-", "3", "8", "4">>, <<"S", "H", "A", "-", "5", "1", "2">>>>

KeywordValue ==
    [InlineSpeculationRules |-> <<"'", "i", "n", "l", "i", "n", "e", "-", "s", "p", "e", "c", "u", "l", "a", "t", "i", "o", "n", "-", "r", "u", "l", "e", "s", "'">>,
     None                   |-> <<"'", "n", "o", "n", "e", "'">>,
     ReportSample           |-> <<"'", "r", "e", "p", "o", "r", "t", "-", "s", "a", "m", "p", "l", "e", "'">>,
     Self                   |-> <<"'", "s", "e", "l", "f", "'">>,
     StrictDynamic          |-> <<"'", "s", "t", "r", "i", "c", "t", "-", "d", "y", "n", "a", "m", "i", "c", "'">>]

UnsafeKeywordValue ==
    [UnsafeEval     |-> <<"'", "u", "n", "s", "a", "f", "e", "-", "e", "v", "a", "l", "'">>,
     UnsafeHashes   |-> <<"'", "u", "n", "s", "a", "f", "e", "-", "h", "a", "s", "h", "e", "s", "'">>,
     UnsafeInline   |-> <<"'", "u", "n", "s", "a", "f", "e", "-", "i", "n", "l", "i", "n", "e", "'">>,
     WasmUnsafeEval |-> <<"'", "w", "a", "s", "m", "-", "u", "n", "s", "a", "f", "e", "-", "e", "v", "a", "l", "'">>]

SchemeSourceValue ==
    [Blob        |-> <<"b", "l", "o", "b", ":">>,
     Data        |-> <<"d", "a", "t", "a", ":">>,
     Filesystem  |-> <<"f", "i", "l", "e", "s", "y", "s", "t", "e", "m", ":">>,
     Http        |-> <<"h", "t", "t", "p", ":">>,
     Https       |-> <<"h", "t", "t", "p", "s", ":">>,
     Mediastream |-> <<"m", "e", "d", "i", "a", "s", "t", "r", "e", "a", "m", ":">>,
     Websocket   |-> <<"w", "s", ":">>,
     Wss         |-> <<"w", "s", "s", ":">>]

\* the outcome of a call: a returned string or a thrown Error with its message
Return(value) == [kind |-> "return", value |-> value]

Throw(message) == [kind |-> "throw", value |-> message]

\* a mutant of formatNonceValue: the nonce is embedded untrimmed
formatNonceValueUntrimmed(nonce) == <<"'", "n", "o", "n", "c", "e", "-">> \o nonce \o <<"'">>

formatNonceValue(nonce) == <<"'", "n", "o", "n", "c", "e", "-">> \o Trim(nonce) \o <<"'">>

formatHashAlgorithm(algorithm) == Replace(ToLowerCase(algorithm), "-", <<>>)

\* a mutant of formatHashValue: the algorithm is not validated
formatHashValueUnchecked(algorithm, hash) ==
    Return(<<"'">> \o formatHashAlgorithm(algorithm) \o <<"-">> \o Trim(hash) \o <<"'">>)

\* a mutant of formatHashValue: only SHA-256 is taken for a valid algorithm
formatHashValueSha256Only(algorithm, hash) ==
    IF algorithm # <<"S", "H", "A", "-", "2", "5", "6">>
    THEN Throw(<<"I", "n", "v", "a", "l", "i", "d", " ", "h", "a", "s", "h", " ", "a", "l", "g", "o", "r", "i", "t", "h", "m", ":", " ">> \o algorithm)
    ELSE Return(<<"'">> \o formatHashAlgorithm(algorithm) \o <<"-">> \o Trim(hash) \o <<"'">>)

formatHashValue(algorithm, hash) ==
    IF ~Includes(HASH_ALGORITHMS, algorithm)
    THEN Throw(<<"I", "n", "v", "a", "l", "i", "d", " ", "h", "a", "s", "h", " ", "a", "l", "g", "o", "r", "i", "t", "h", "m", ":", " ">> \o algorithm)
    ELSE Return(<<"'">> \o formatHashAlgorithm(algorithm) \o <<"-">> \o Trim(hash) \o <<"'">>)

----------------------------------------------------------------------------
(* JavaScript strings: code units *)

Digits == <<"0", "1", "2", "3", "4", "5", "6", "7", "8", "9">>

\* String.prototype.charCodeAt: the code unit of a character of the model
CharCode(c) ==
    CASE Includes(LowerCaseLetters, c) -> 97 + IndexOf(LowerCaseLetters, c)
      [] Includes(UpperCaseLetters, c) -> 65 + IndexOf(UpperCaseLetters, c)
      [] Includes(Digits, c) -> 48 + IndexOf(Digits, c)
      [] c = "\t" -> 9
      [] c = "\n" -> 10
      [] c = "\f" -> 12
      [] c = "\r" -> 13
      [] c = " " -> 32
      [] c = "'" -> 39
      [] c = "+" -> 43
      [] c = "-" -> 45
      [] c = "/" -> 47
      [] c = ":" -> 58
      [] c = "=" -> 61

----------------------------------------------------------------------------
(* value.ts: randomNonce and hashSource *)

\* TextEncoder.prototype.encode: the UTF-8 bytes of a string; the characters
\* of the model are ASCII, one byte each
Encode(s) == [i \in 1..Len(s) |-> CharCode(s[i])]

Base64Alphabet ==
    <<"A", "B", "C", "D", "E", "F", "G", "H", "I", "J", "K", "L", "M", "N", "O", "P", "Q", "R", "S", "T", "U", "V", "W", "X", "Y", "Z", "a", "b", "c", "d", "e", "f", "g", "h", "i", "j", "k", "l", "m", "n", "o", "p", "q", "r", "s", "t", "u", "v", "w", "x", "y", "z", "0", "1", "2", "3", "4", "5", "6", "7", "8", "9", "+", "/">>

\* a mutant of Btoa: the padding is left out
BtoaUnpadded(bytes) ==
    LET n == Len(bytes)
        byte(k) == IF k <= n THEN bytes[k] ELSE 0
        triple(g) == byte(3 * g - 2) * 65536 + byte(3 * g - 1) * 256 + byte(3 * g)
        sextet(g, j) == (triple(g) \div <<262144, 4096, 64, 1>>[j]) % 64
        length == 4 * (n \div 3) + (IF n % 3 = 0 THEN 0 ELSE (n % 3) + 1)
    IN [p \in 1..length |->
           Base64Alphabet[sextet(((p - 1) \div 4) + 1, ((p - 1) % 4) + 1) + 1]]

\* btoa(String.fromCharCode(...bytes)): each group of three bytes gives four
\* characters of six bits each; a last group of one or two bytes is filled
\* with zero bits and its unused characters are written "="
Btoa(bytes) ==
    LET n == Len(bytes)
        byte(k) == IF k <= n THEN bytes[k] ELSE 0
        triple(g) == byte(3 * g - 2) * 65536 + byte(3 * g - 1) * 256 + byte(3 * g)
        sextet(g, j) == (triple(g) \div <<262144, 4096, 64, 1>>[j]) % 64
    IN [p \in 1..(4 * ((n + 2) \div 3)) |->
           LET g == ((p - 1) \div 4) + 1
               j == ((p - 1) % 4) + 1
           IN IF 3 * (g - 1) + j <= n + 1
              THEN Base64Alphabet[sextet(g, j) + 1]
              ELSE "="]

HexDigits == <<"0", "1", "2", "3", "4", "5", "6", "7", "8", "9", "a", "b", "c", "d", "e", "f">>

\* a version 4 UUID as crypto.randomUUID() writes it: 8-4-4-4-12 lower-case
\* hexadecimal digits, the first digit of the third group 4 and the first
\* digit of the fourth group y, one of 8, 9, a, b; h fills the other digits
UUID(h, y) ==
    [i \in 1..8 |-> h] \o <<"-">> \o [i \in 1..4 |-> h] \o <<"-", "4">> \o [i \in 1..3 |-> h]
    \o <<"-">> \o <<y>> \o [i \in 1..3 |-> h] \o <<"-">> \o [i \in 1..12 |-> h]

\* a mutant of randomNonce: the dashes of the UUID are not encoded
randomNonceWithoutDashes(uuid) == Btoa(Encode(SelectSeq(uuid, LAMBDA c : c # "-")))

\* randomNonce, given the UUID that crypto.randomUUID() returns
randomNonce(uuid) == Btoa(Encode(uuid))

\* the digest lengths in bytes of the algorithms that crypto.subtle.digest
\* knows; it matches their names without regard to case
DigestLength ==
    (<<"s", "h", "a", "-", "1">> :> 20) @@ (<<"s", "h", "a", "-", "2", "5", "6">> :> 32) @@ (<<"s", "h", "a", "-", "3", "8", "4">> :> 48) @@ (<<"s", "h", "a", "-", "5", "1", "2">> :> 64)

\* crypto.subtle.digest(algorithm, data): the promise is rejected for a name
\* it does not know, and otherwise fulfilled with a buffer of the algorithm's
\* length.  The hash functions themselves are not part of the library: the
\* bytes here stand for theirs, a function of the algorithm and the data.
Digest(algorithm, data) ==
    LET name == ToLowerCase(algorithm)
    IN IF name \notin DOMAIN DigestLength
       THEN Throw(<<"U", "n", "r", "e", "c", "o", "g", "n", "i", "z", "e", "d", " ", "a", "l", "g", "o", "r", "i", "t", "h", "m", " ", "n", "a", "m", "e">>)
       ELSE Return([i \in 1..DigestLength[name] |->
                       IF data = <<>> THEN (7 * i + DigestLength[name]) % 256
                       ELSE (data[((i - 1) % Len(data)) + 1] * i + Len(data)
                                + DigestLength[name]) % 256])

\* the outcome of the promise hashSource returns
hashSource(algorithm, source) ==
    LET hashBuffer == Digest(algorithm, Encode(source))
    IN IF hashBuffer.kind = "throw" THEN hashBuffer
       ELSE Return(Btoa(hashBuffer.value))

----------------------------------------------------------------------------
(* config.ts: the keyword config mapper *)

\* a JavaScript boolean or undefined; `if (value)` tests truthiness
Truthy(value) == value = "true"

\* own properties of the frozen object literal UNSAFE_KEYWORD_MAP
UNSAFE_KEYWORD_MAP ==
    (<<"u", "n", "s", "a", "f", "e", "E", "v", "a", "l">> :> UnsafeKeywordValue.UnsafeEval)
    @@ (<<"u", "n", "s", "a", "f", "e", "H", "a", "s", "h", "e", "s">> :> UnsafeKeywordValue.UnsafeHashes)
    @@ (<<"u", "n", "s", "a", "f", "e", "I", "n", "l", "i", "n", "e">> :> UnsafeKeywordValue.UnsafeInline)
    @@ (<<"w", "a", "s", "m", "U", "n", "s", "a", "f", "e", "E", "v", "a", "l">> :> UnsafeKeywordValue.WasmUnsafeEval)

\* own properties of the frozen object literal SCHEME_KEYWORD_MAP
SCHEME_KEYWORD_MAP ==
    (<<"b", "l", "o", "b">> :> SchemeSourceValue.Blob)
    @@ (<<"d", "a", "t", "a">> :> SchemeSourceValue.Data)
    @@ (<<"f", "i", "l", "e", "s", "y", "s", "t", "e", "m">> :> SchemeSourceValue.Filesystem)
    @@ (<<"h", "t", "t", "p">> :> SchemeSourceValue.Http)
    @@ (<<"h", "t", "t", "p", "s">> :> SchemeSourceValue.Https)
    @@ (<<"m", "e", "d", "i", "a", "s", "t", "r", "e", "a", "m">> :> SchemeSourceValue.Mediastream)
    @@ (<<"w", "s">> :> SchemeSourceValue.Websocket)
    @@ (<<"w", "s", "s">> :> SchemeSourceValue.Wss)

\* Both maps are object literals, so their prototype is Object.prototype: the
\* `in` operator and a property read walk the prototype chain and find its
\* members.  Each member is given here by the text it converts to when the
\* array holding it is joined.
ObjectPrototype ==
    (<<"c", "o", "n", "s", "t", "r", "u", "c", "t", "o", "r">> :> <<"f", "u", "n", "c", "t", "i", "o", "n", " ", "O", "b", "j", "e", "c", "t", "(", ")", " ", "{", " ", "[", "n", "a", "t", "i", "v", "e", " ", "c", "o", "d", "e", "]", " ", "}">>)
    @@ (<<"t", "o", "S", "t", "r", "i", "n", "g">> :> <<"f", "u", "n", "c", "t", "i", "o", "n", " ", "t", "o", "S", "t", "r", "i", "n", "g", "(", ")", " ", "{", " ", "[", "n", "a", "t", "i", "v", "e", " ", "c", "o", "d", "e", "]", " ", "}">>)
    @@ (<<"v", "a", "l", "u", "e", "O", "f">> :> <<"f", "u", "n", "c", "t", "i", "o", "n", " ", "v", "a", "l", "u", "e", "O", "f", "(", ")", " ", "{", " ", "[", "n", "a", "t", "i", "v", "e", " ", "c", "o", "d", "e", "]", " ", "}">>)
    @@ (<<"h", "a", "s", "O", "w", "n", "P", "r", "o", "p", "e", "r", "t", "y">> :> <<"f", "u", "n", "c", "t", "i", "o", "n", " ", "h", "a", "s", "O", "w", "n", "P", "r", "o", "p", "e", "r", "t", "y", "(", ")", " ", "{", " ", "[", "n", "a", "t", "i", "v", "e", " ", "c", "o", "d", "e", "]", " ", "}">>)

\* `key in map`
HasProperty(key, map) == key \in DOMAIN map \/ key \in DOMAIN ObjectPrototype

\* `map[key]` for a key that HasProperty finds
GetProperty(map, key) ==
    IF key \in DOMAIN map THEN map[key] ELSE ObjectPrototype[key]

isUnsafeKeyword(key) == HasProperty(key, unsafeKeywordMap)

isSchemeKeyword(key) == HasProperty(key, schemeKeywordMap)

\* String.prototype.localeCompare for strings of ASCII letters and hyphens:
\* letters are compared alphabetically ignoring case, a hyphen comes before
\* every letter, a proper prefix comes first, and strings equal up to case
\* are ordered lower case first.
PrimaryRank(c) == IndexOf(LowerCaseLetters, ToLowerCaseChar(c))

\* the first position at which two sequences differ, or 0 when one is a
\* prefix of the other
FirstDifference(a, b) ==
    LET n == IF Len(a) < Len(b) THEN Len(a) ELSE Len(b)
        differing == {i \in 1..n : a[i] # b[i]}
    IN IF differing = {} THEN 0
       ELSE CHOOSE i \in differing : \A j \in differing : i <= j

PrimaryRanks(s) == [i \in 1..Len(s) |-> PrimaryRank(s[i])]

ComparePrimary(a, b) ==
    LET i == FirstDifference(PrimaryRanks(a), PrimaryRanks(b))
    IN IF i = 0
       THEN (IF Len(a) < Len(b) THEN -1 ELSE IF Len(a) > Len(b) THEN 1 ELSE 0)
       ELSE IF PrimaryRank(a[i]) < PrimaryRank(b[i]) THEN -1 ELSE 1

\* for strings that ComparePrimary finds equal
CompareCase(a, b) ==
    LET i == FirstDifference(a, b)
    IN IF i = 0 THEN 0
       ELSE IF Includes(LowerCaseLetters, a[i]) THEN -1 ELSE 1

LocaleCompare(a, b) ==
    LET primary == ComparePrimary(a, b)
    IN IF primary # 0 THEN primary ELSE CompareCase(a, b)

\* Object.entries(object): the own <<key, value>> pairs in insertion order;
\* an object is modelled by this sequence
Entries(object) == object

\* Array.prototype.sort (stable) with the comparator
\* ([keyA], [keyB]) => keyA.localeCompare(keyB)
RECURSIVE InsertEntry(_, _)
InsertEntry(entries, entry) ==
    IF entries = <<>> THEN <<entry>>
    ELSE IF LocaleCompare(entry[1], Head(entries)[1]) < 0 THEN <<entry>> \o entries
    ELSE <<Head(entries)>> \o InsertEntry(Tail(entries), entry)

\* a mutant of SortEntries: the entries keep their declaration order
UnsortedEntries(entries) == entries

RECURSIVE SortEntries(_)
SortEntries(entries) ==
    IF entries = <<>> THEN <<>>
    ELSE InsertEntry(SortEntries(SubSeq(entries, 1, Len(entries) - 1)),
                     entries[Len(entries)])

\* an optional property: <<>> when undefined, <<v>> when it holds v
Undefined == <<>>

Defined(v) == <<v>>

\* a destructuring default: `name = fallback`
OrDefault(option, fallback) == IF option = Undefined THEN fallback ELSE option[1]

\* step 5: for each sorted entry, `if (value && isUnsafeKeyword(key))` push
UnsafeTokens(unsafe) ==
    LET kept == SelectSeq(SortEntries(Entries(unsafe)),
                          LAMBDA e : Truthy(e[2]) /\ isUnsafeKeyword(e[1]))
    IN [i \in 1..Len(kept) |-> GetProperty(unsafeKeywordMap, kept[i][1])]

\* step 6: for each sorted entry, `if (value && isSchemeKeyword(key))` push
SchemeTokens(schema) ==
    LET kept == SelectSeq(SortEntries(Entries(schema)),
                          LAMBDA e : Truthy(e[2]) /\ isSchemeKeyword(e[1]))
    IN [i \in 1..Len(kept) |-> GetProperty(schemeKeywordMap, kept[i][1])]

\* a mutant of HostTokens: each host is trimmed
TrimmedHostTokens(hosts) == [i \in 1..Len(hosts) |-> Trim(hosts[i])]

\* step 7: each host is pushed as it is
HostTokens(hosts) == hosts

\* a mutant of HashTokens: a descriptor for which formatHashValue throws is
\* left out and the others are pushed
HashTokensSkippingInvalid(hashes) ==
    LET valid == SelectSeq(hashes, LAMBDA h : formatHashValue(h.algorithm, h.hash).kind = "return")
    IN [tokens |-> [i \in 1..Len(valid) |->
                       formatHashValue(valid[i].algorithm, valid[i].hash).value],
        thrown |-> <<>>]

\* step 8: formatHashValue of each descriptor is pushed, up to the first
\* descriptor for which it throws; thrown holds that Error's message
RECURSIVE HashTokens(_)
HashTokens(hashes) ==
    IF hashes = <<>> THEN [tokens |-> <<>>, thrown |-> <<>>]
    ELSE LET r == formatHashValue(Head(hashes).algorithm, Head(hashes).hash)
         IN IF r.kind = "throw"
            THEN [tokens |-> <<>>, thrown |-> <<r.value>>]
            ELSE LET rest == HashTokens(Tail(hashes))
                 IN [tokens |-> <<r.value>> \o rest.tokens, thrown |-> rest.thrown]

\* step 9: formatNonceValue of each nonce is pushed
NonceTokens(nonces) == [i \in 1..Len(nonces) |-> formatNonceValue(nonces[i])]

Pushed(tokens) == [tokens |-> tokens, thrown |-> <<>>]

\* the n-th numbered step of configToSourceExpressionList
Step(config, n) ==
    CASE n = 1 -> Pushed(IF Truthy(config.self) THEN <<KeywordValue.Self>> ELSE <<>>)
      [] n = 2 -> Pushed(IF Truthy(config.strictDynamic)
                         THEN <<KeywordValue.StrictDynamic>> ELSE <<>>)
      [] n = 3 -> Pushed(IF Truthy(config.inlineSpeculationRules)
                         THEN <<KeywordValue.InlineSpeculationRules>> ELSE <<>>)
      [] n = 4 -> Pushed(IF Truthy(config.reportSample)
                         THEN <<KeywordValue.ReportSample>> ELSE <<>>)
      [] n = 5 -> Pushed(UnsafeTokens(OrDefault(config.unsafe, <<>>)))
      [] n = 6 -> Pushed(SchemeTokens(OrDefault(config.schema, <<>>)))
      [] n = 7 -> Pushed(HostTokens(OrDefault(config.hosts, <<>>)))
      [] n = 8 -> HashTokens(OrDefault(config.hashes, <<>>))
      [] n = 9 -> Pushed(NonceTokens(OrDefault(config.nonces, <<>>)))

\* the steps in the order given, stopping at a step that throws
RECURSIVE RunSteps(_, _)
RunSteps(config, order) ==
    IF order = <<>> THEN [policies |-> <<>>, stages |-> <<>>, thrown |-> <<>>]
    ELSE LET s == Step(config, Head(order))
             tags == [i \in 1..Len(s.tokens) |-> Head(order)]
         IN IF s.thrown # <<>>
            THEN [policies |-> s.tokens, stages |-> tags, thrown |-> s.thrown]
            ELSE LET rest == RunSteps(config, Tail(order))
                 IN [policies |-> s.tokens \o rest.policies,
                     stages |-> tags \o rest.stages,
                     thrown |-> rest.thrown]

Outcome(run) ==
    [policies |-> run.policies,
     stages |-> run.stages,
     outcome |-> IF run.thrown # <<>> THEN Throw(run.thrown[1])
                 ELSE Return(Join(run.policies, <<" ">>))]

\* a mutant of configToSourceExpressionList: hashes are added before hosts
configToSourceExpressionListHashesFirst(config) ==
    Outcome(RunSteps(config, <<1, 2, 3, 4, 5, 6, 8, 7, 9>>))

\* the policies array as the function leaves it, the step that pushed each
\* element, and the function's outcome
configToSourceExpressionList(config) ==
    Outcome(RunSteps(config, <<1, 2, 3, 4, 5, 6, 7, 8, 9>>))

----------------------------------------------------------------------------
(* directive.ts: the directive catalog *)

FetchDirective ==
    [ChildSrc       |-> <<"c", "h", "i", "l", "d", "-", "s", "r", "c">>,
     ConnectSrc     |-> <<"c", "o", "n", "n", "e", "c", "t", "-", "s", "r", "c">>,
     DefaultSrc     |-> <<"d", "e", "f", "a", "u", "l", "t", "-", "s", "r", "c">>,
     FencedFrameSrc |-> <<"f", "e", "n", "c", "e", "d", "-", "f", "r", "a", "m", "e", "-", "s", "r", "c">>,
     FontSrc        |-> <<"f", "o", "n", "t", "-", "s", "r", "c">>,
     FrameSrc       |-> <<"f", "r", "a", "m", "e", "-", "s", "r", "c">>,
     ImgSrc         |-> <<"i", "m", "g", "-", "s", "r", "c">>,
     ManifestSrc    |-> <<"m", "a", "n", "i", "f", "e", "s", "t", "-", "s", "r", "c">>,
     MediaSrc       |-> <<"m", "e", "d", "i", "a", "-", "s", "r", "c">>,
     ObjectSrc      |-> <<"o", "b", "j", "e", "c", "t", "-", "s", "r", "c">>,
     PrefetchSrc    |-> <<"p", "r", "e", "f", "e", "t", "c", "h", "-", "s", "r", "c">>,
     ScriptSrc      |-> <<"s", "c", "r", "i", "p", "t", "-", "s", "r", "c">>,
     ScriptSrcAttr  |-> <<"s", "c", "r", "i", "p", "t", "-", "s", "r", "c", "-", "a", "t", "t", "r">>,
     ScriptSrcElem  |-> <<"s", "c", "r", "i", "p", "t", "-", "s", "r", "c", "-", "e", "l", "e", "m">>,
     StyleSrc       |-> <<"s", "t", "y", "l", "e", "-", "s", "r", "c">>,
     StyleSrcAttr   |-> <<"s", "t", "y", "l", "e", "-", "s", "r", "c", "-", "a", "t", "t", "r">>,
     StyleSrcElem   |-> <<"s", "t", "y", "l", "e", "-", "s", "r", "c", "-", "e", "l", "e", "m">>,
     WorkerSrc      |-> <<"w", "o", "r", "k", "e", "r", "-", "s", "r", "c">>]

DocumentDirective ==
    [BaseUri |-> <<"b", "a", "s", "e", "-", "u", "r", "i">>,
     Sandbox |-> <<"s", "a", "n", "d", "b", "o", "x">>]

NavigationDirective ==
    [FormAction     |-> <<"f", "o", "r", "m", "-", "a", "c", "t", "i", "o", "n">>,
     FrameAncestors |-> <<"f", "r", "a", "m", "e", "-", "a", "n", "c", "e", "s", "t", "o", "r", "s">>]

ReportingDirective ==
    [ReportTo  |-> <<"r", "e", "p", "o", "r", "t", "-", "t", "o">>,
     ReportUri |-> <<"r", "e", "p", "o", "r", "t", "-", "u", "r", "i">>]

OtherDirective ==
    [RequireTrustedTypesFor  |-> <<"r", "e", "q", "u", "i", "r", "e", "-", "t", "r", "u", "s", "t", "e", "d", "-", "t", "y", "p", "e", "s", "-", "f", "o", "r">>,
     TrustedTypes            |-> <<"t", "r", "u", "s", "t", "e", "d", "-", "t", "y", "p", "e", "s">>,
     UpgradeInsecureRequests |-> <<"u", "p", "g", "r", "a", "d", "e", "-", "i", "n", "s", "e", "c", "u", "r", "e", "-", "r", "e", "q", "u", "e", "s", "t", "s">>]

EnumValues(enum) == {enum[name] : name \in DOMAIN enum}

\* the values of the Directive type
Directive ==
    EnumValues(FetchDirective) \cup EnumValues(DocumentDirective)
    \cup EnumValues(NavigationDirective) \cup EnumValues(ReportingDirective)
    \cup EnumValues(OtherDirective)

\* the member names of each enum in the order of their declaration
FetchDirectiveNames ==
    <<"ChildSrc", "ConnectSrc", "DefaultSrc", "FencedFrameSrc", "FontSrc",
      "FrameSrc", "ImgSrc", "ManifestSrc", "MediaSrc", "ObjectSrc", "PrefetchSrc",
      "ScriptSrc", "ScriptSrcAttr", "ScriptSrcElem", "StyleSrc", "StyleSrcAttr",
      "StyleSrcElem", "WorkerSrc">>

DocumentDirectiveNames == <<"BaseUri", "Sandbox">>

NavigationDirectiveNames == <<"FormAction", "FrameAncestors">>

ReportingDirectiveNames == <<"ReportTo", "ReportUri">>

OtherDirectiveNames ==
    <<"RequireTrustedTypesFor", "TrustedTypes", "UpgradeInsecureRequests">>

\* Object.values(enum): the values in the order of the member names
ObjectValues(enum, names) == [i \in 1..Len(names) |-> enum[names[i]]]

\* Object.values(Directive), the spread of the five enums
DirectiveValues ==
    ObjectValues(FetchDirective, FetchDirectiveNames)
    \o ObjectValues(DocumentDirective, DocumentDirectiveNames)
    \o ObjectValues(NavigationDirective, NavigationDirectiveNames)
    \o ObjectValues(ReportingDirective, ReportingDirectiveNames)
    \o ObjectValues(OtherDirective, OtherDirectiveNames)

\* the comparison of Array.prototype.sort without a comparator: by code units,
\* a proper prefix first
CompareCodeUnits(a, b) ==
    LET i == FirstDifference(a, b)
    IN IF i = 0
       THEN (IF Len(a) < Len(b) THEN -1 ELSE IF Len(a) > Len(b) THEN 1 ELSE 0)
       ELSE IF CharCode(a[i]) < CharCode(b[i]) THEN -1 ELSE 1

FETCH_DIRECTIVE_CUSTOM_ORDER ==
    <<FetchDirective.DefaultSrc, FetchDirective.ScriptSrc, FetchDirective.StyleSrc,
      FetchDirective.ImgSrc, FetchDirective.FontSrc>>

\* a mutant of sortDirectives: the directives are compared by name
sortDirectivesByName(a, b) == LocaleCompare(a, b)

\* a mutant of sortDirectives: only the pinned fetch directives have a place
sortDirectivesPinnedOnly(a, b) ==
    IndexOf(FETCH_DIRECTIVE_CUSTOM_ORDER, a) - IndexOf(FETCH_DIRECTIVE_CUSTOM_ORDER, b)

\* sortDirectives reads the array DIRECTIVE_SORT_ORDER, held in sortOrder
\* a mutant of sortDirectives: a directive that is not in the array has the
\* position after the last
sortDirectivesUnknownLast(a, b) ==
    LET position(d) == IF Includes(sortOrder, d) THEN IndexOf(sortOrder, d)
                       ELSE Len(sortOrder)
    IN position(a) - position(b)

sortDirectives(a, b) == IndexOf(sortOrder, a) - IndexOf(sortOrder, b)

\* the comparators handed to Array.prototype.sort and to
\* formatPolicyDirectiveList, by name: "default" is a sort without comparator,
\* "reverse" is (a, b) => b.localeCompare(a), "alphabetical" is
\* (a, b) => a.localeCompare(b), "unordered" is () => 0; "throwing" gives
\* no number (see Throwing)
Compare(sort, a, b) ==
    CASE sort = "sortDirectives" -> sortDirectives(a, b)
      [] sort = "default" -> CompareCodeUnits(a, b)
      [] sort = "reverse" -> LocaleCompare(b, a)
      [] sort = "alphabetical" -> LocaleCompare(a, b)
      [] sort = "unordered" -> 0

\* the inverse of a permutation of 1..n
Inverse(rank) == [r \in DOMAIN rank |-> CHOOSE i \in DOMAIN rank : rank[i] = r]

\* a mutant of Before: the sort is not stable, elements that compare equal
\* come out in the reverse of their order
BeforeUnstable(order, j, i) == j # i /\ (order < 0 \/ (order = 0 /\ j > i))

\* Array.prototype.sort is stable: the element at j comes before the element
\* at i when it compares less (order is the comparator's result for the
\* two), or compares equal and stood before it
Before(order, j, i) == j # i /\ (order < 0 \/ (order = 0 /\ j < i))

\* the place of the element at i in the sorted array
Rank(keys, sort, i) ==
    Cardinality({j \in 1..Len(keys) : Before(Compare(sort, keys[j], keys[i]), j, i)}) + 1

\* the indices of the keys in their sorted order
SortedIndices(keys, sort) == Inverse([i \in 1..Len(keys) |-> Rank(keys, sort, i)])

\* the elements of the array at the indices, in the order of the indices
Permute(array, indices) == [i \in 1..Len(indices) |-> array[indices[i]]]

\* array.sort(sort) of an array of strings
Sort(array, sort) == Permute(array, SortedIndices(array, sort))

\* a mutant of DIRECTIVE_SORT_ORDER: the document directives come before the
\* other directives
DIRECTIVE_SORT_ORDER_DocumentFirst ==
    FETCH_DIRECTIVE_CUSTOM_ORDER
    \o Sort(SelectSeq(ObjectValues(FetchDirective, FetchDirectiveNames),
                      LAMBDA d : Includes(FETCH_DIRECTIVE_CUSTOM_ORDER, d) = FALSE),
            "default")
    \o Sort(ObjectValues(NavigationDirective, NavigationDirectiveNames), "default")
    \o Sort(ObjectValues(DocumentDirective, DocumentDirectiveNames), "default")
    \o Sort(ObjectValues(OtherDirective, OtherDirectiveNames), "default")
    \o Sort(ObjectValues(ReportingDirective, ReportingDirectiveNames), "default")

\* a mutant of DIRECTIVE_SORT_ORDER: the pinned fetch directives are not
\* filtered out of the sorted fetch directives
DIRECTIVE_SORT_ORDER_Unfiltered ==
    FETCH_DIRECTIVE_CUSTOM_ORDER
    \o Sort(ObjectValues(FetchDirective, FetchDirectiveNames), "default")
    \o Sort(ObjectValues(NavigationDirective, NavigationDirectiveNames), "default")
    \o Sort(ObjectValues(OtherDirective, OtherDirectiveNames), "default")
    \o Sort(ObjectValues(DocumentDirective, DocumentDirectiveNames), "default")
    \o Sort(ObjectValues(ReportingDirective, ReportingDirectiveNames), "default")

DIRECTIVE_SORT_ORDER ==
    FETCH_DIRECTIVE_CUSTOM_ORDER
    \o Sort(SelectSeq(ObjectValues(FetchDirective, FetchDirectiveNames),
                      LAMBDA d : Includes(FETCH_DIRECTIVE_CUSTOM_ORDER, d) = FALSE),
            "default")
    \o Sort(ObjectValues(NavigationDirective, NavigationDirectiveNames), "default")
    \o Sort(ObjectValues(OtherDirective, OtherDirectiveNames), "default")
    \o Sort(ObjectValues(DocumentDirective, DocumentDirectiveNames), "default")
    \o Sort(ObjectValues(ReportingDirective, ReportingDirectiveNames), "default")

----------------------------------------------------------------------------
(* policy.ts: the policy directive formatter *)

\* a mutant of formatPolicyDirective: the separator is written even when
\* there are no values
formatPolicyDirectiveAlwaysJoined(directive, values) ==
    directive \o <<" ">> \o Join([i \in 1..Len(values) |-> Trim(values[i])], <<" ">>)

\* a mutant of formatPolicyDirective: the values are joined as they are
formatPolicyDirectiveUntrimmed(directive, values) ==
    IF Len(values) = 0 THEN directive
    ELSE directive \o <<" ">> \o Join(values, <<" ">>)

formatPolicyDirective(directive, values) ==
    IF Len(values) = 0 THEN directive
    ELSE directive \o <<" ">>
             \o Join([i \in 1..Len(values) |-> Trim(values[i])], <<" ">>)

\* a JavaScript value that is a function (value names it), an array (value
\* holds it) or undefined
Function(name) == [type |-> "function", value |-> name]

Array(tuple) == [type |-> "object", value |-> tuple]

UndefinedValue == [type |-> "undefined", value |-> <<>>]

\* `[...policies].sort(([a], [b]) => sortOrPolicy(a, b))`: the clauses in the
\* stable order of their directives; Array.prototype.sort puts undefined
\* elements last without comparing them
SortClauses(clauses, sort) ==
    Permute(clauses, SortedIndices([i \in 1..Len(clauses) |-> clauses[i][1]], sort))

SortPolicies(tuples, sort) ==
    SortClauses(SelectSeq(tuples, LAMBDA p : p # Undefined), sort)
    \o SelectSeq(tuples, LAMBDA p : p = Undefined)

\* a comparator that throws when it is called:
\* () => { throw new Error('compared') }
Throwing(sort) == sort = "throwing"

\* a mutant of ComparatorCalled: the comparator is called for every list
ComparatorCalledAlways(tuples) == TRUE

\* Array.prototype.sort calls the comparator when it has two elements to put
\* in order; elements that are undefined are not compared
ComparatorCalled(tuples) == Len(SelectSeq(tuples, LAMBDA p : p # Undefined)) >= 2

\* `.map(([directive, ...values]) => formatPolicyDirective(directive,
\* ...values)).join('; ')`: destructuring undefined throws a TypeError
FormatPolicies(clauses) ==
    IF \E i \in 1..Len(clauses) : clauses[i] = Undefined
    THEN Throw(<<"T", "y", "p", "e", "E", "r", "r", "o", "r", ":", " ", "u", "n", "d", "e", "f", "i", "n", "e", "d", " ", "i", "s", " ", "n", "o", "t", " ", "i", "t", "e", "r", "a", "b", "l", "e">>)
    ELSE Return(Join([i \in 1..Len(clauses) |->
                         formatPolicyDirective(Head(clauses[i]), Tail(clauses[i]))],
                     <<";", " ">>))

\* a mutant of formatPolicyDirectiveList: a call without a comparator keeps
\* the clauses in the caller's order
formatPolicyDirectiveListUnsortedDefault(sortOrPolicy, tuples) ==
    LET sort == IF sortOrPolicy.type = "function" THEN sortOrPolicy.value
                ELSE "unordered"
        all == IF sortOrPolicy.type = "function" THEN tuples
               ELSE IF sortOrPolicy.type = "undefined" THEN <<Undefined>> \o tuples
               ELSE <<sortOrPolicy.value>> \o tuples
    IN IF Throwing(sort) /\ ComparatorCalled(all)
       THEN [sorted |-> <<>>, outcome |-> Throw(<<"c", "o", "m", "p", "a", "r", "e", "d">>)]
       ELSE [sorted |-> SortPolicies(all, sort),
             outcome |-> FormatPolicies(SortPolicies(all, sort))]

\* a mutant of formatPolicyDirectiveList: the comparator handed in is not
\* used, the clauses are sorted with sortDirectives
formatPolicyDirectiveListDefaultOnly(sortOrPolicy, tuples) ==
    LET all == IF sortOrPolicy.type = "function" THEN tuples
               ELSE IF sortOrPolicy.type = "undefined" THEN <<Undefined>> \o tuples
               ELSE <<sortOrPolicy.value>> \o tuples
    IN [sorted |-> SortPolicies(all, "sortDirectives"),
        outcome |-> FormatPolicies(SortPolicies(all, "sortDirectives"))]

\* a mutant of formatPolicyDirectiveList: a call without arguments is a call
\* without clauses
formatPolicyDirectiveListNoArguments(sortOrPolicy, tuples) ==
    LET sort == IF sortOrPolicy.type = "function" THEN sortOrPolicy.value
                ELSE "sortDirectives"
        all == IF sortOrPolicy.type = "object" THEN <<sortOrPolicy.value>> \o tuples
               ELSE tuples
    IN IF Throwing(sort) /\ ComparatorCalled(all)
       THEN [sorted |-> <<>>, outcome |-> Throw(<<"c", "o", "m", "p", "a", "r", "e", "d">>)]
       ELSE [sorted |-> SortPolicies(all, sort),
             outcome |-> FormatPolicies(SortPolicies(all, sort))]

\* formatPolicyDirectiveList(sortOrPolicy, ...policies): the sorted copy and
\* the outcome.  A first argument that is no function is a clause, or
\* undefined when the call has no arguments; it is put before the other
\* clauses and the call is made again with sortDirectives.
RECURSIVE formatPolicyDirectiveList(_, _)
formatPolicyDirectiveList(sortOrPolicy, tuples) ==
    IF sortOrPolicy.type = "function"
    THEN IF Throwing(sortOrPolicy.value) /\ ComparatorCalled(tuples)
         THEN [sorted |-> <<>>, outcome |-> Throw(<<"c", "o", "m", "p", "a", "r", "e", "d">>)]
         ELSE LET copy == SortPolicies(tuples, sortOrPolicy.value)
              IN [sorted |-> copy, outcome |-> FormatPolicies(copy)]
    ELSE formatPolicyDirectiveList(
             Function("sortDirectives"),
             <<IF sortOrPolicy.type = "undefined" THEN Undefined
               ELSE sortOrPolicy.value>> \o tuples)

----------------------------------------------------------------------------
(* The callers' inputs *)

\* characters of the strings handed to the value formatter
Alphabet == {"a", " ", "\n"}

Strings == StringsOver(Alphabet, MaxLen)

\* algorithm identifiers handed to formatHashValue: the three of the
\* HashAlgorithm type and two that are not of it
Algorithms ==
    {HASH_ALGORITHMS[i] : i \in 1..Len(HASH_ALGORITHMS)} \cup {<<"M", "D", "5">>, <<"s", "h", "a", "-", "2", "5", "6">>}

\* values handed to formatPolicyDirective
PolicyValues == {<<"'", "s", "e", "l", "f", "'">>, <<" ", "'", "s", "e", "l", "f", "'", " ">>, <<"a">>, <<>>, <<" ">>}

ValueLists == UNION {[1..k -> PolicyValues] : k \in 0..MaxValues}

\* directives handed to sortDirectives: the catalog and two names that are
\* not in it
DirectiveArguments == Directive \cup {<<"f", "o", "o">>, <<"b", "a", "r">>}

\* arrays handed to Array.prototype.sort with sortDirectives: the catalog
\* turned round by every number of places, forwards and backwards
Rotations(array) ==
    {[i \in 1..Len(array) |-> array[((i + k) % Len(array)) + 1]] : k \in 1..Len(array)}

Reverse(array) == [i \in 1..Len(array) |-> array[Len(array) + 1 - i]]

Shuffles == Rotations(DirectiveValues) \cup Rotations(Reverse(DirectiveValues))

\* comparators handed to formatPolicyDirectiveList
Comparators == {"sortDirectives", "reverse", "unordered", "throwing"}

\* clauses handed to formatPolicyDirectiveList
ClauseDirectives ==
    {FetchDirective.DefaultSrc, FetchDirective.ScriptSrc,
     FetchDirective.WorkerSrc, DocumentDirective.Sandbox}

ClauseValues == {<<<<" ", "'", "s", "e", "l", "f", "'", " ">>, <<"a">>>>, <<<<" ">>>>}

\* directives of clauses that are not in the catalog
UnknownDirectives == {<<"f", "o", "o">>, <<"b", "a", "r">>}

\* each of the directives without values, and default-src with values
Clauses ==
    {<<directive>> : directive \in ClauseDirectives \cup UnknownDirectives}
    \cup {<<FetchDirective.DefaultSrc>> \o values : values \in ClauseValues}

ClauseLists == UNION {[1..k -> Clauses] : k \in 0..MaxClauses}

\* source strings handed to hashSource
Sources == Strings

\* UUIDs that crypto.randomUUID() returns
UUIDs == {UUID(HexDigits[h], y) : h \in 1..Len(HexDigits), y \in {"8", "9", "a", "b"}}

\* hosts, hashes and nonces put in a PolicyConfig
ConfigStrings == {<<" ", "a", " ">>, <<"b">>}

\* keys of the unsafe and schema sections that are no flag names
UnknownKeys == {<<"c", "o", "n", "s", "t", "r", "u", "c", "t", "o", "r">>, <<"f", "o", "o">>}

\* keys of the unsafe and schema sections that are also declared false
FalseKeys == {<<"u", "n", "s", "a", "f", "e", "E", "v", "a", "l">>, <<"h", "t", "t", "p", "s">>, <<"c", "o", "n", "s", "t", "r", "u", "c", "t", "o", "r">>}

\* One declaration of a PolicyConfig literal.  kind names the property;
\* for a flag, on is its value; for a section, key and on are one of its
\* entries; for a list, str is one of its elements (for hashes, key is the
\* algorithm); on = "empty" declares a section or list with nothing in it.
Declaration(kind, key, str, on) == [kind |-> kind, key |-> key, str |-> str, on |-> on]

Declarations ==
    {Declaration(kind, <<>>, <<>>, on) :
        kind \in {"self", "strictDynamic", "inlineSpeculationRules", "reportSample"},
        on \in {"false", "true"}}
    \cup {Declaration("unsafe", key, <<>>, "true") :
            key \in DOMAIN UNSAFE_KEYWORD_MAP \cup UnknownKeys}
    \cup {Declaration("unsafe", key, <<>>, "false") :
            key \in (DOMAIN UNSAFE_KEYWORD_MAP \cup UnknownKeys) \cap FalseKeys}
    \cup {Declaration("schema", key, <<>>, "true") :
            key \in DOMAIN SCHEME_KEYWORD_MAP \cup UnknownKeys}
    \cup {Declaration("schema", key, <<>>, "false") :
            key \in (DOMAIN SCHEME_KEYWORD_MAP \cup UnknownKeys) \cap FalseKeys}
    \cup {Declaration("hosts", <<>>, str, "push") : str \in ConfigStrings}
    \cup {Declaration("hashes", algorithm, str, "push") :
            algorithm \in Algorithms \ {<<"s", "h", "a", "-", "2", "5", "6">>}, str \in ConfigStrings \ {<<"b">>}}
    \cup {Declaration("nonces", <<>>, str, "push") : str \in ConfigStrings}
    \cup {Declaration(kind, <<>>, <<>>, "empty") :
            kind \in {"unsafe", "schema", "hosts", "hashes", "nonces"}}

\* `object[key] = value`: a key the object has keeps its place
SetEntry(object, key, value) ==
    IF \E i \in 1..Len(object) : object[i][1] = key
    THEN [i \in 1..Len(object) |->
              IF object[i][1] = key THEN <<key, value>> ELSE object[i]]
    ELSE Append(object, <<key, value>>)

\* the PolicyConfig `{}`
EmptyConfig ==
    [self |-> "undefined", strictDynamic |-> "undefined",
     inlineSpeculationRules |-> "undefined", reportSample |-> "undefined",
     unsafe |-> Undefined, schema |-> Undefined,
     hosts |-> Undefined, hashes |-> Undefined, nonces |-> Undefined]

Section(option, d) ==
    IF d.on = "empty" THEN Defined(OrDefault(option, <<>>))
    ELSE Defined(SetEntry(OrDefault(option, <<>>), d.key, d.on))

List(option, d, element) ==
    IF d.on = "empty" THEN Defined(OrDefault(option, <<>>))
    ELSE Defined(Append(OrDefault(option, <<>>), element))

Declare(config, d) ==
    CASE d.kind = "self" -> [config EXCEPT !.self = d.on]
      [] d.kind = "strictDynamic" -> [config EXCEPT !.strictDynamic = d.on]
      [] d.kind = "inlineSpeculationRules" ->
             [config EXCEPT !.inlineSpeculationRules = d.on]
      [] d.kind = "reportSample" -> [config EXCEPT !.reportSample = d.on]
      [] d.kind = "unsafe" -> [config EXCEPT !.unsafe = Section(@, d)]
      [] d.kind = "schema" -> [config EXCEPT !.schema = Section(@, d)]
      [] d.kind = "hosts" -> [config EXCEPT !.hosts = List(@, d, d.str)]
      [] d.kind = "hashes" ->
             [config EXCEPT !.hashes =
                 List(@, d, [algorithm |-> d.key, hash |-> d.str])]
      [] d.kind = "nonces" -> [config EXCEPT !.nonces = List(@, d, d.str)]

\* the PolicyConfig a sequence of declarations builds
RECURSIVE PolicyConfigOf(_)
PolicyConfigOf(declarations) ==
    IF declarations = <<>> THEN EmptyConfig
    ELSE Declare(PolicyConfigOf(SubSeq(declarations, 1, Len(declarations) - 1)),
                 declarations[Len(declarations)])

\* the PolicyConfig values of at most MaxItems declarations
PolicyConfigs ==
    {PolicyConfigOf(ds) : ds \in UNION {[1..k -> Declarations] : k \in 0..MaxItems}}

----------------------------------------------------------------------------
(* The calls *)

NoCall == [fn |-> "none", args |-> <<>>]

NoResult == [kind |-> "none", value |-> <<>>]

\* the promise of an async call that is not settled yet
Pending == [kind |-> "pending", value |-> <<>>]

\* the state after the modules are loaded
Init ==
    /\ call = NoCall
    /\ ret = NoResult
    /\ policies = <<>>
    /\ stages = <<>>
    /\ sorted = <<>>
    /\ arguments = <<>>
    /\ sortOrder = DIRECTIVE_SORT_ORDER
    /\ fetchOrder = FETCH_DIRECTIVE_CUSTOM_ORDER
    /\ unsafeKeywordMap = UNSAFE_KEYWORD_MAP
    /\ schemeKeywordMap = SCHEME_KEYWORD_MAP
    /\ earlier = <<>>
    /\ promises = <<>>

CallFormatNonceValue ==
    /\ call = NoCall
    /\ \E nonce \in Strings :
        /\ call' = [fn |-> "formatNonceValue", args |-> <<nonce>>]
        /\ arguments' = <<nonce>>
        /\ ret' = Return(formatNonceValue(nonce))
    /\ UNCHANGED <<policies, stages, sorted, modules, earlier, promises>>

CallFormatHashValue ==
    /\ call = NoCall
    /\ \E algorithm \in Algorithms, hash \in Strings :
        /\ call' = [fn |-> "formatHashValue", args |-> <<algorithm, hash>>]
        /\ arguments' = <<algorithm, hash>>
        /\ ret' = formatHashValue(algorithm, hash)
    /\ UNCHANGED <<policies, stages, sorted, modules, earlier, promises>>

CallFormatPolicyDirective ==
    /\ call = NoCall
    /\ \E directive \in Directive, values \in ValueLists :
        /\ call' = [fn |-> "formatPolicyDirective", args |-> <<directive, values>>]
        /\ arguments' = <<directive, values>>
        /\ ret' = Return(formatPolicyDirective(directive, values))
    /\ UNCHANGED <<policies, stages, sorted, modules, earlier, promises>>

\* a mutant of CallConfigToSourceExpressionList: the array `policies` is the
\* module's and is never emptied, so the text of a call the caller kept
\* stands before the tokens of the next call
CallConfigToSourceExpressionListShared ==
    /\ call = NoCall
    /\ \E config \in PolicyConfigs :
        LET run == configToSourceExpressionList(config)
            kept == IF earlier # <<>> /\ earlier[1].outcome.kind = "return"
                    THEN <<earlier[1].outcome.value>> ELSE <<>>
        IN /\ call' = [fn |-> "configToSourceExpressionList", args |-> <<config>>]
           /\ arguments' = <<config>>
           /\ ret' = IF run.outcome.kind = "throw" THEN run.outcome
                     ELSE Return(Join(kept \o run.policies, <<" ">>))
           /\ policies' = kept \o run.policies
           /\ stages' = run.stages
    /\ UNCHANGED <<sorted, modules, earlier, promises>>

CallConfigToSourceExpressionList ==
    /\ call = NoCall
    /\ \E config \in PolicyConfigs :
        LET run == configToSourceExpressionList(config)
        IN /\ call' = [fn |-> "configToSourceExpressionList", args |-> <<config>>]
           /\ arguments' = <<config>>
           /\ ret' = run.outcome
           /\ policies' = run.policies
           /\ stages' = run.stages
    /\ UNCHANGED <<sorted, modules, earlier, promises>>

CallSortDirectives ==
    /\ call = NoCall
    /\ \E a \in DirectiveArguments, b \in DirectiveArguments :
        /\ call' = [fn |-> "sortDirectives", args |-> <<a, b>>]
        /\ arguments' = <<a, b>>
        /\ ret' = Return(sortDirectives(a, b))
    /\ UNCHANGED <<policies, stages, sorted, modules, earlier, promises>>

\* array.sort(sortDirectives): the array is sorted in place and returned
CallSort ==
    /\ call = NoCall
    /\ \E array \in Shuffles :
        /\ call' = [fn |-> "sort", args |-> <<array>>]
        /\ arguments' = <<Sort(array, "sortDirectives")>>
        /\ ret' = Return(Sort(array, "sortDirectives"))
    /\ UNCHANGED <<policies, stages, sorted, modules, earlier, promises>>

\* a mutant of FormatPolicyDirectiveListCall: the clauses are sorted in the
\* caller's array, `policies.sort(...)`
FormatPolicyDirectiveListCallInPlace(sortOrPolicy, rest) ==
    LET run == formatPolicyDirectiveList(sortOrPolicy, rest)
    IN /\ call' = [fn |-> "formatPolicyDirectiveList", args |-> <<sortOrPolicy, rest>>]
       /\ arguments' = <<sortOrPolicy,
                         IF sortOrPolicy.type = "function" THEN run.sorted ELSE rest>>
       /\ ret' = run.outcome
       /\ sorted' = run.sorted

\* formatPolicyDirectiveList(sortOrPolicy, ...rest); the clauses are sorted
\* in a copy, `[...policies].sort(...)`, and the arguments are left as they are
FormatPolicyDirectiveListCall(sortOrPolicy, rest) ==
    LET run == formatPolicyDirectiveList(sortOrPolicy, rest)
    IN /\ call' = [fn |-> "formatPolicyDirectiveList", args |-> <<sortOrPolicy, rest>>]
       /\ arguments' = <<sortOrPolicy, rest>>
       /\ ret' = run.outcome
       /\ sorted' = run.sorted

\* a call with a comparator and clauses, with clauses only, or with nothing
CallFormatPolicyDirectiveList ==
    /\ call = NoCall
    /\ \E clauses \in ClauseLists :
        \/ \E sort \in Comparators : FormatPolicyDirectiveListCall(Function(sort), clauses)
        \/ /\ clauses # <<>>
           /\ FormatPolicyDirectiveListCall(Array(Head(clauses)), Tail(clauses))
        \/ /\ clauses = <<>>
           /\ FormatPolicyDirectiveListCall(UndefinedValue, <<>>)
    /\ UNCHANGED <<policies, stages, modules, earlier, promises>>

CallRandomNonce ==
    /\ call = NoCall
    /\ \E uuid \in UUIDs :
        /\ call' = [fn |-> "randomNonce", args |-> <<>>]
        /\ arguments' = <<>>
        /\ ret' = Return(randomNonce(uuid))
    /\ UNCHANGED <<policies, stages, sorted, modules, earlier, promises>>

\* hashSource returns a promise and awaits the digest
CallHashSource ==
    /\ call = NoCall
    /\ \E algorithm \in Algorithms, source \in Sources :
        /\ call' = [fn |-> "hashSource", args |-> <<algorithm, source>>]
        /\ arguments' = <<algorithm, source>>
    /\ ret' = Pending
    /\ UNCHANGED <<policies, stages, sorted, modules, earlier, promises>>

\* the digest settles and with it the promise of hashSource
DigestSettles ==
    /\ call.fn = "hashSource"
    /\ ret.kind = "pending"
    /\ ret' = hashSource(call.args[1], call.args[2])
    /\ UNCHANGED <<call, policies, stages, sorted, arguments, modules, earlier, promises>>

\* the caller takes the outcome; the library keeps nothing of the call
Continue ==
    /\ call # NoCall
    /\ ret.kind # "pending"
    /\ call' = NoCall
    /\ ret' = NoResult
    /\ policies' = <<>>
    /\ stages' = <<>>
    /\ sorted' = <<>>
    /\ arguments' = <<>>
    /\ UNCHANGED <<modules, earlier, promises>>

Next ==
    \/ CallFormatNonceValue
    \/ CallFormatHashValue
    \/ CallFormatPolicyDirective
    \/ CallConfigToSourceExpressionList
    \/ CallSortDirectives
    \/ CallSort
    \/ CallFormatPolicyDirectiveList
    \/ CallRandomNonce
    \/ CallHashSource
    \/ DigestSettles
    \/ Continue

Spec == Init /\ [][Next]_vars

----------------------------------------------------------------------------
(* A caller that keeps the outcome of a call to compare a later call with *)

\* the configs whose outcome the caller keeps: one that returns a string,
\* one with a key of the prototype chain, one whose hash throws
RememberedConfigs ==
    {PolicyConfigOf(<<Declaration("self", <<>>, <<>>, "true"),
                      Declaration("hosts", <<>>, <<" ", "a", " ">>, "push")>>),
     PolicyConfigOf(<<Declaration("unsafe", <<"c", "o", "n", "s", "t", "r", "u", "c", "t", "o", "r">>, <<>>, "true")>>),
     PolicyConfigOf(<<Declaration("hashes", <<"M", "D", "5">>, <<" ", "a", " ">>, "push")>>)}

\* the caller keeps the config and the outcome of the call just made
Remember ==
    /\ call.fn = "configToSourceExpressionList"
    /\ call.args[1] \in RememberedConfigs
    /\ earlier' = <<[config |-> call.args[1], outcome |-> ret]>>
    /\ UNCHANGED <<call, ret, policies, stages, sorted, arguments, modules, promises>>

NextHistory == Next \/ Remember

SpecHistory == Init /\ [][NextHistory]_vars

----------------------------------------------------------------------------
(* A caller that issues several hashSource calls before awaiting them *)

\* most hashSource calls in flight together
MaxPending == 2

\* algorithms and sources of the calls issued together
ConcurrentAlgorithms == {<<"S", "H", "A", "-", "2", "5", "6">>, <<"S", "H", "A", "-", "5", "1", "2">>, <<"M", "D", "5">>}

ConcurrentSources == {<<"a">>, <<" ", "a">>}

\* a mutant of DigestSettlesInAnyOrder: the encoded data is kept in a buffer
\* that the calls share, so a digest is that of the call issued last
DigestSettlesShared ==
    /\ \E i \in 1..Len(promises) :
        /\ promises[i].ret.kind = "pending"
        /\ promises' =
               [promises EXCEPT ![i].ret =
                   hashSource(promises[i].args[1], promises[Len(promises)].args[2])]
    /\ UNCHANGED <<call, ret, policies, stages, sorted, arguments, modules, earlier>>

\* hashSource is called, and returns its promise, while the promises of
\* earlier calls are pending or settled
CallHashSourceTogether ==
    /\ call = NoCall
    /\ Len(promises) < MaxPending
    /\ \E algorithm \in ConcurrentAlgorithms, source \in ConcurrentSources :
        promises' = Append(promises, [args |-> <<algorithm, source>>, ret |-> Pending])
    /\ UNCHANGED <<call, ret, policies, stages, sorted, arguments, modules, earlier>>

\* the digest one of the calls awaits settles, whichever call was issued first
DigestSettlesInAnyOrder ==
    /\ \E i \in 1..Len(promises) :
        /\ promises[i].ret.kind = "pending"
        /\ promises' =
               [promises EXCEPT ![i].ret =
                   hashSource(promises[i].args[1], promises[i].args[2])]
    /\ UNCHANGED <<call, ret, policies, stages, sorted, arguments, modules, earlier>>

\* the caller has awaited every promise and lets them go
AwaitAll ==
    /\ promises # <<>>
    /\ \A i \in 1..Len(promises) : promises[i].ret.kind # "pending"
    /\ promises' = <<>>
    /\ UNCHANGED <<call, ret, policies, stages, sorted, arguments, modules, earlier>>

NextConcurrent ==
    \/ CallHashSourceTogether
    \/ DigestSettlesInAnyOrder
    \/ AwaitAll

SpecConcurrent == Init /\ [][NextConcurrent]_vars
----------------------------------------------------------------------------
(* Properties: what is said of a call *)

IsConfigCall == call.fn = "configToSourceExpressionList"

IsHashCall == call.fn = "formatHashValue"

IsNonceCall == call.fn = "formatNonceValue"

IsDirectiveCall == call.fn = "formatPolicyDirective"

Returned == ret.kind = "return"

Threw == ret.kind = "throw"

\* the config of a configToSourceExpressionList call, list by list
Config == call.args[1]

ConfigUnsafe == OrDefault(Config.unsafe, <<>>)

ConfigSchema == OrDefault(Config.schema, <<>>)

ConfigHosts == OrDefault(Config.hosts, <<>>)

ConfigHashes == OrDefault(Config.hashes, <<>>)

ConfigNonces == OrDefault(Config.nonces, <<>>)

\* t is s without its leading and trailing whitespace
IsTrimOf(t, s) ==
    \E i, j \in 0..Len(s) :
        /\ i + j <= Len(s)
        /\ t = SubSeq(s, i + 1, Len(s) - j)
        /\ \A k \in 1..i : s[k] \in WhiteSpace
        /\ \A k \in (Len(s) - j + 1)..Len(s) : s[k] \in WhiteSpace
        /\ t # <<>> => (t[1] \notin WhiteSpace /\ t[Len(t)] \notin WhiteSpace)

\* where the i-th of the tokens starts in their space-joined text, less one
RECURSIVE Offset(_, _)
Offset(tokens, i) ==
    IF i <= 1 THEN 0 ELSE Offset(tokens, i - 1) + Len(tokens[i - 1]) + 1

\* text is the tokens in their order with one space between neighbours
IsSpaceJoined(text, tokens) ==
    /\ Len(text) = IF tokens = <<>> THEN 0
                   ELSE Offset(tokens, Len(tokens)) + Len(tokens[Len(tokens)])
    /\ \A i \in 1..Len(tokens) :
        /\ SubSeq(text, Offset(tokens, i) + 1, Offset(tokens, i) + Len(tokens[i]))
               = tokens[i]
        /\ i > 1 => text[Offset(tokens, i)] = " "

IsPrefixOf(p, s) == Len(p) <= Len(s) /\ SubSeq(s, 1, Len(p)) = p

\* the entries of a section whose key is one of the flag names and is true
TrueFlagKeys(section, flagNames) ==
    {section[i][1] : i \in {k \in 1..Len(section) :
                               section[k][1] \in flagNames /\ section[k][2] = "true"}}

\* C1: the tokens of a result stand in the order of the nine steps ('self',
\* 'strict-dynamic', 'inline-speculation-rules', 'report-sample', unsafe
\* keywords, schemes, hosts, hashes, nonces): no token of a later step
\* precedes one of an earlier step, each step's tokens are of its kind, and
\* the result is the tokens joined by single spaces.
C1_TokensInStageOrder ==
    (IsConfigCall /\ Returned) =>
        /\ Len(stages) = Len(policies)
        /\ \A i, j \in 1..Len(policies) : i < j => stages[i] <= stages[j]
        /\ \A i \in 1..Len(policies) :
            /\ stages[i] = 1 => policies[i] = <<"'", "s", "e", "l", "f", "'">> /\ Config.self = "true"
            /\ stages[i] = 2 =>
                   policies[i] = <<"'", "s", "t", "r", "i", "c", "t", "-", "d", "y", "n", "a", "m", "i", "c", "'">> /\ Config.strictDynamic = "true"
            /\ stages[i] = 3 =>
                   /\ policies[i] = <<"'", "i", "n", "l", "i", "n", "e", "-", "s", "p", "e", "c", "u", "l", "a", "t", "i", "o", "n", "-", "r", "u", "l", "e", "s", "'">>
                   /\ Config.inlineSpeculationRules = "true"
            /\ stages[i] = 4 =>
                   policies[i] = <<"'", "r", "e", "p", "o", "r", "t", "-", "s", "a", "m", "p", "l", "e", "'">> /\ Config.reportSample = "true"
            /\ stages[i] = 7 => \E k \in 1..Len(ConfigHosts) : policies[i] = ConfigHosts[k]
            /\ stages[i] = 8 => IsPrefixOf(<<"'", "s", "h", "a">>, policies[i])
            /\ stages[i] = 9 => IsPrefixOf(<<"'", "n", "o", "n", "c", "e", "-">>, policies[i])
        /\ \A key \in TrueFlagKeys(ConfigUnsafe, DOMAIN UNSAFE_KEYWORD_MAP) :
               \E i \in 1..Len(policies) :
                   stages[i] = 5 /\ policies[i] = UNSAFE_KEYWORD_MAP[key]
        /\ \A key \in TrueFlagKeys(ConfigSchema, DOMAIN SCHEME_KEYWORD_MAP) :
               \E i \in 1..Len(policies) :
                   stages[i] = 6 /\ policies[i] = SCHEME_KEYWORD_MAP[key]
        /\ Len(ConfigHosts) = Cardinality({i \in 1..Len(stages) : stages[i] = 7})
        /\ Len(ConfigHashes) = Cardinality({i \in 1..Len(stages) : stages[i] = 8})
        /\ Len(ConfigNonces) = Cardinality({i \in 1..Len(stages) : stages[i] = 9})
        /\ IsSpaceJoined(ret.value, policies)

\* a result with a hash token after a scheme token
C1_Witness ==
    /\ IsConfigCall /\ Returned
    /\ policies = <<<<"h", "t", "t", "p", "s", ":">>, <<"'", "s", "h", "a", "5", "1", "2", "-", "a", "'">>>>
    /\ stages = <<6, 8>>
    /\ ret.value = <<"h", "t", "t", "p", "s", ":", " ", "'", "s", "h", "a", "5", "1", "2", "-", "a", "'">>

PrimaryFlagsOff(config) ==
    /\ config.self # "true"
    /\ config.strictDynamic # "true"
    /\ config.inlineSpeculationRules # "true"
    /\ config.reportSample # "true"

\* C2: a config whose flags (primary, unsafe, scheme) are all false or absent
\* and whose hosts, hashes and nonces are empty or absent yields the empty
\* string.
C2_EmptyConfigYieldsEmptyString ==
    (/\ IsConfigCall
     /\ PrimaryFlagsOff(Config)
     /\ TrueFlagKeys(ConfigUnsafe, DOMAIN UNSAFE_KEYWORD_MAP) = {}
     /\ TrueFlagKeys(ConfigSchema, DOMAIN SCHEME_KEYWORD_MAP) = {}
     /\ ConfigHosts = <<>> /\ ConfigHashes = <<>> /\ ConfigNonces = <<>>)
    => ret = Return(<<>>)

\* the number of flags of a config that are true
TrueFlagCount(config) ==
    Cardinality({f \in {"self", "strictDynamic", "inlineSpeculationRules",
                        "reportSample"} : config[f] = "true"})
    + Cardinality(TrueFlagKeys(OrDefault(config.unsafe, <<>>), DOMAIN UNSAFE_KEYWORD_MAP))
    + Cardinality(TrueFlagKeys(OrDefault(config.schema, <<>>), DOMAIN SCHEME_KEYWORD_MAP))

\* the flags of a config, each with its token and the config that has it true
FlagTurnedOn(config) ==
    {[isOn |-> config[f] = "true",
      token |-> (("self" :> KeywordValue.Self)
                 @@ ("strictDynamic" :> KeywordValue.StrictDynamic)
                 @@ ("inlineSpeculationRules" :> KeywordValue.InlineSpeculationRules)
                 @@ ("reportSample" :> KeywordValue.ReportSample))[f],
      config |-> [config EXCEPT ![f] = "true"]] :
        f \in {"self", "strictDynamic", "inlineSpeculationRules", "reportSample"}}
    \cup
    {[isOn |-> key \in TrueFlagKeys(OrDefault(config.unsafe, <<>>), {key}),
      token |-> UNSAFE_KEYWORD_MAP[key],
      config |-> [config EXCEPT !.unsafe =
                     Defined(SetEntry(OrDefault(@, <<>>), key, "true"))]] :
        key \in DOMAIN UNSAFE_KEYWORD_MAP}
    \cup
    {[isOn |-> key \in TrueFlagKeys(OrDefault(config.schema, <<>>), {key}),
      token |-> SCHEME_KEYWORD_MAP[key],
      config |-> [config EXCEPT !.schema =
                     Defined(SetEntry(OrDefault(@, <<>>), key, "true"))]] :
        key \in DOMAIN SCHEME_KEYWORD_MAP}

\* longer is shorter with the one token put in somewhere
IsInsertionOf(longer, shorter, token) ==
    \E i \in 0..Len(shorter) :
        longer = SubSeq(shorter, 1, i) \o <<token>> \o SubSeq(shorter, i + 1, Len(shorter))

\* C3: every true flag contributes exactly one token, so a result has as many
\* tokens as the config has true flags, hosts, hashes and nonces; and turning
\* one flag from false to true puts in that flag's token and leaves the other
\* tokens in their order.
C3_OneTokenPerTrueFlag ==
    (IsConfigCall /\ Returned) =>
        /\ Len(policies) = TrueFlagCount(Config) + Len(ConfigHosts)
                               + Len(ConfigHashes) + Len(ConfigNonces)
        /\ \A flag \in FlagTurnedOn(Config) :
               ~flag.isOn =>
                   IsInsertionOf(configToSourceExpressionList(flag.config).policies,
                                 policies, flag.token)

\* the orders in which the elements of a sequence can be declared
DeclarationOrders(seq) ==
    {[i \in 1..Len(seq) |-> seq[p[i]]] :
        p \in {q \in [1..Len(seq) -> 1..Len(seq)] :
                  \A a, b \in 1..Len(seq) : q[a] = q[b] => a = b}}

\* the tokens of the flags of each section, by flag name in alphabetical order
UnsafeTokensByFlagName ==
    <<<<"'", "u", "n", "s", "a", "f", "e", "-", "e", "v", "a", "l", "'">>, <<"'", "u", "n", "s", "a", "f", "e", "-", "h", "a", "s", "h", "e", "s", "'">>, <<"'", "u", "n", "s", "a", "f", "e", "-", "i", "n", "l", "i", "n", "e", "'">>, <<"'", "w", "a", "s", "m", "-", "u", "n", "s", "a", "f", "e", "-", "e", "v", "a", "l", "'">>>>

SchemeTokensByFlagName ==
    <<<<"b", "l", "o", "b", ":">>, <<"d", "a", "t", "a", ":">>, <<"f", "i", "l", "e", "s", "y", "s", "t", "e", "m", ":">>, <<"h", "t", "t", "p", ":">>, <<"h", "t", "t", "p", "s", ":">>, <<"m", "e", "d", "i", "a", "s", "t", "r", "e", "a", "m", ":">>,
      <<"w", "s", ":">>, <<"w", "s", "s", ":">>>>

\* the tokens of one step that are in `ranked` stand in the order of `ranked`
StepInOrderOf(step, ranked) ==
    \A i, j \in 1..Len(policies) :
        (/\ i < j
         /\ stages[i] = step /\ stages[j] = step
         /\ Includes(ranked, policies[i]) /\ Includes(ranked, policies[j]))
        => IndexOf(ranked, policies[i]) < IndexOf(ranked, policies[j])

\* C4: the unsafe-keyword tokens and the scheme tokens are each in the
\* alphabetical order of their flag names, and the order in which the keys of
\* the unsafe and schema sections are declared does not change the result.
C4_SectionsSortedByFlagName ==
    IsConfigCall =>
        /\ Returned => /\ StepInOrderOf(5, UnsafeTokensByFlagName)
                       /\ StepInOrderOf(6, SchemeTokensByFlagName)
        /\ \A unsafe \in DeclarationOrders(ConfigUnsafe), schema \in DeclarationOrders(ConfigSchema) :
               configToSourceExpressionList(
                   [Config EXCEPT !.unsafe = IF @ = Undefined THEN @ ELSE Defined(unsafe),
                                  !.schema = IF @ = Undefined THEN @ ELSE Defined(schema)]
               ).outcome = ret

\* wasmUnsafeEval declared before unsafeEval, both true
C4_Witness ==
    /\ IsConfigCall /\ Returned
    /\ ConfigUnsafe = <<<<<<"w", "a", "s", "m", "U", "n", "s", "a", "f", "e", "E", "v", "a", "l">>, "true">>, <<<<"u", "n", "s", "a", "f", "e", "E", "v", "a", "l">>, "true">>>>
    /\ ret.value = <<"'", "u", "n", "s", "a", "f", "e", "-", "e", "v", "a", "l", "'", " ", "'", "w", "a", "s", "m", "-", "u", "n", "s", "a", "f", "e", "-", "e", "v", "a", "l", "'">>

\* a section without the entries whose key is no flag name
OnlyFlags(section, flagNames) == SelectSeq(section, LAMBDA e : e[1] \in flagNames)

\* C5: a key of the unsafe or schema section that is no flag name is ignored,
\* whatever its value: the call ends as it does for the config without that
\* key, with no token added and no error raised.
C5_UnknownKeysIgnored ==
    IsConfigCall =>
        configToSourceExpressionList(
            [Config EXCEPT
                !.unsafe = IF @ = Undefined THEN @
                           ELSE Defined(OnlyFlags(@[1], DOMAIN UNSAFE_KEYWORD_MAP)),
                !.schema = IF @ = Undefined THEN @
                           ELSE Defined(OnlyFlags(@[1], DOMAIN SCHEME_KEYWORD_MAP))]
        ).outcome = ret

\* C6: the last tokens of a result are the hosts as given, then
\* formatHashValue of each hash descriptor, then formatNonceValue of each
\* nonce, each list in its insertion order with its duplicates.
C6_ListsVerbatimInOrder ==
    (IsConfigCall /\ Returned) =>
        LET n == Len(ConfigHosts) + Len(ConfigHashes) + Len(ConfigNonces)
            expected ==
                ConfigHosts
                \o [i \in 1..Len(ConfigHashes) |->
                       formatHashValue(ConfigHashes[i].algorithm, ConfigHashes[i].hash).value]
                \o [i \in 1..Len(ConfigNonces) |-> formatNonceValue(ConfigNonces[i])]
        IN /\ n <= Len(policies)
           /\ SubSeq(policies, Len(policies) - n + 1, Len(policies)) = expected
           /\ \A i \in 1..(Len(policies) - n) : stages[i] < 7
           /\ IsSpaceJoined(ret.value, SubSeq(policies, 1, Len(policies) - n) \o expected)

\* an untrimmed host followed by the token of an untrimmed nonce
C6_Witness ==
    /\ IsConfigCall /\ Returned
    /\ ConfigHosts = <<<<" ", "a", " ">>>>
    /\ ConfigNonces = <<<<" ", "a", " ">>>>
    /\ ret.value = <<" ", "a", " ", " ", "'", "n", "o", "n", "c", "e", "-", "a", "'">>

\* the prefix of each supported algorithm
HashPrefix ==
    (<<"S", "H", "A", "-", "2", "5", "6">> :> <<"s", "h", "a", "2", "5", "6">>) @@ (<<"S", "H", "A", "-", "3", "8", "4">> :> <<"s", "h", "a", "3", "8", "4">>) @@ (<<"S", "H", "A", "-", "5", "1", "2">> :> <<"s", "h", "a", "5", "1", "2">>)

\* C7: for SHA-256, SHA-384 and SHA-512, formatHashValue returns, in single
\* quotes, the algorithm name in lower case without its dash (sha256, sha384,
\* sha512), '-' and the hash without its leading and trailing whitespace.
C7_HashValueFormat ==
    (IsHashCall /\ call.args[1] \in DOMAIN HashPrefix) =>
        /\ Returned
        /\ \E t \in {SubSeq(call.args[2], i, j) :
                        i \in 1..(Len(call.args[2]) + 1), j \in 0..Len(call.args[2])} :
            /\ IsTrimOf(t, call.args[2])
            /\ ret.value = <<"'">> \o HashPrefix[call.args[1]] \o <<"-">> \o t \o <<"'">>

\* a hash with whitespace on both sides
C7_Witness ==
    /\ IsHashCall
    /\ call.args = <<<<"S", "H", "A", "-", "3", "8", "4">>, <<" ", "a", "\n">>>>
    /\ ret = Return(<<"'", "s", "h", "a", "3", "8", "4", "-", "a", "'">>)

\* C8: formatHashValue with an algorithm that is not SHA-256, SHA-384 or
\* SHA-512 fails with the invalid-algorithm error and returns no token,
\* whatever the hash.
C8_InvalidAlgorithmThrows ==
    (IsHashCall /\ call.args[1] \notin DOMAIN HashPrefix) =>
        ret = Throw(<<"I", "n", "v", "a", "l", "i", "d", " ", "h", "a", "s", "h", " ", "a", "l", "g", "o", "r", "i", "t", "h", "m", ":", " ">> \o call.args[1])

\* MD5 with a hash
C8_Witness ==
    /\ IsHashCall
    /\ call.args = <<<<"M", "D", "5">>, <<"a">>>>
    /\ Threw

\* C9: formatNonceValue returns 'nonce-<t>' in single quotes, t being the
\* nonce without its leading and trailing whitespace; a nonce with no
\* whitespace around it is embedded unchanged.
C9_NonceValueFormat ==
    IsNonceCall =>
        LET nonce == call.args[1]
        IN /\ Returned
           /\ \E t \in {SubSeq(nonce, i, j) : i \in 1..(Len(nonce) + 1), j \in 0..Len(nonce)} :
               /\ IsTrimOf(t, nonce)
               /\ ret.value = <<"'", "n", "o", "n", "c", "e", "-">> \o t \o <<"'">>
           /\ (nonce = <<>> \/ (nonce[1] \notin WhiteSpace /\ nonce[Len(nonce)] \notin WhiteSpace))
                  => ret.value = <<"'", "n", "o", "n", "c", "e", "-">> \o nonce \o <<"'">>

\* a nonce with whitespace on both sides and inside
C9_Witness ==
    /\ IsNonceCall
    /\ call.args = <<<<"\n", "a", " ">>>>
    /\ ret = Return(<<"'", "n", "o", "n", "c", "e", "-", "a", "'">>)

\* C10: formatPolicyDirective with no values returns the directive name and
\* nothing more.
C10_BareDirective ==
    (IsDirectiveCall /\ call.args[2] = <<>>) => ret = Return(call.args[1])

\* sandbox without values
C10_Witness ==
    /\ IsDirectiveCall
    /\ call.args = <<<<"s", "a", "n", "d", "b", "o", "x">>, <<>>>>
    /\ ret = Return(<<"s", "a", "n", "d", "b", "o", "x">>)


----------------------------------------------------------------------------
(* Properties of the policy formatter, the directive order and the hashes *)

\* the substrings of a string
Substrings(s) == {SubSeq(s, i, j) : i \in 1..(Len(s) + 1), j \in 0..Len(s)}

\* s without its leading and trailing whitespace
TrimOf(s) == CHOOSE t \in Substrings(s) : IsTrimOf(t, s)

\* C11: formatPolicyDirective with one or more values returns the directive
\* name, one space, and the values, each without its leading and trailing
\* whitespace, with one space between neighbours, in the caller's order;
\* equal values all appear and no value is left out.
C11_DirectiveWithValues ==
    (IsDirectiveCall /\ Len(call.args[2]) >= 1) =>
        LET values == call.args[2]
        IN /\ Returned
           /\ IsSpaceJoined(ret.value,
                  <<call.args[1]>> \o [i \in 1..Len(values) |-> TrimOf(values[i])])

\* the same untrimmed value twice
C11_Witness ==
    /\ IsDirectiveCall
    /\ call.args = <<<<"s", "c", "r", "i", "p", "t", "-", "s", "r", "c">>, <<<<" ", "'", "s", "e", "l", "f", "'", " ">>, <<" ", "'", "s", "e", "l", "f", "'", " ">>>>>>
    /\ ret = Return(<<"s", "c", "r", "i", "p", "t", "-", "s", "r", "c", " ", "'", "s", "e", "l", "f", "'", " ", "'", "s", "e", "l", "f", "'">>)

IsListCall == call.fn = "formatPolicyDirectiveList"

IsSortDirectivesCall == call.fn = "sortDirectives"

IsSortCall == call.fn = "sort"

IsHashSourceCall == call.fn = "hashSource"

IsRandomNonceCall == call.fn = "randomNonce"

\* where the i-th of the parts starts in their text joined by sep, less one
RECURSIVE OffsetBy(_, _, _)
OffsetBy(parts, i, sep) ==
    IF i <= 1 THEN 0 ELSE OffsetBy(parts, i - 1, sep) + Len(parts[i - 1]) + Len(sep)

\* text is the parts in their order with sep between neighbours
IsJoinedBy(text, parts, sep) ==
    /\ Len(text) = IF parts = <<>> THEN 0
                   ELSE OffsetBy(parts, Len(parts), sep) + Len(parts[Len(parts)])
    /\ \A i \in 1..Len(parts) :
        /\ SubSeq(text, OffsetBy(parts, i, sep) + 1, OffsetBy(parts, i, sep) + Len(parts[i]))
               = parts[i]
        /\ i > 1 => SubSeq(text, OffsetBy(parts, i, sep) - Len(sep) + 1,
                           OffsetBy(parts, i, sep)) = sep

\* a and b hold the same elements, each as often
IsPermutationOf(a, b) ==
    /\ Len(a) = Len(b)
    /\ \E p \in [1..Len(a) -> 1..Len(a)] :
        /\ \A i, j \in 1..Len(a) : p[i] = p[j] => i = j
        /\ \A i \in 1..Len(a) : a[i] = b[p[i]]

\* the clauses of a formatPolicyDirectiveList call in the caller's order
CallClauses ==
    IF call.args[1].type = "object" THEN <<call.args[1].value>> \o call.args[2]
    ELSE call.args[2]

\* text is the directive of the clause and its values, each trimmed, in their
\* order, as formatPolicyDirective writes them
IsClauseText(text, clause) ==
    /\ text = formatPolicyDirective(Head(clause), Tail(clause))
    /\ IsSpaceJoined(text, <<Head(clause)>>
                               \o [i \in 1..(Len(clause) - 1) |-> TrimOf(clause[i + 1])])

\* text is the clauses, each as formatPolicyDirective writes it, with "; "
\* between neighbours
IsClauseList(text, clauses) ==
    \E parts \in {[i \in 1..Len(clauses) |->
                      formatPolicyDirective(Head(clauses[i]), Tail(clauses[i]))]} :
        /\ \A i \in 1..Len(clauses) : IsClauseText(parts[i], clauses[i])
        /\ IsJoinedBy(text, parts, <<";", " ">>)

\* the place of a directive in DIRECTIVE_SORT_ORDER, 0 when it has none
PlaceInOrder(directive) ==
    IF \E i \in 1..Len(sortOrder) : sortOrder[i] = directive
    THEN CHOOSE i \in 1..Len(sortOrder) : sortOrder[i] = directive
    ELSE 0

\* array holds every catalog directive once
IsPermutationOfCatalog(array) ==
    /\ Len(array) = Cardinality(Directive)
    /\ {array[i] : i \in 1..Len(array)} = Directive

\* C12: formatPolicyDirectiveList without a comparator and with one or more
\* clauses returns what it returns with sortDirectives as the comparator and
\* the same clauses: the clauses stand in the order of their directives in
\* DIRECTIVE_SORT_ORDER, each formatted by formatPolicyDirective, joined by
\* "; ".
C12_DefaultComparatorIsSortDirectives ==
    (IsListCall /\ call.args[1].type = "object") =>
        /\ ret = formatPolicyDirectiveList(Function("sortDirectives"), CallClauses).outcome
        /\ Returned
        /\ IsPermutationOf(sorted, CallClauses)
        /\ \A i, j \in 1..Len(sorted) :
               i < j => PlaceInOrder(sorted[i][1]) <= PlaceInOrder(sorted[j][1])
        /\ IsClauseList(ret.value, sorted)

\* sandbox given before default-src, no comparator
C12_Witness ==
    /\ IsListCall
    /\ call.args[1].type = "object"
    /\ call.args[1].value = <<<<"s", "a", "n", "d", "b", "o", "x">>>>
    /\ call.args[2] = << <<<<"d", "e", "f", "a", "u", "l", "t", "-", "s", "r", "c">>, <<" ", "'", "s", "e", "l", "f", "'", " ">>, <<"a">>>> >>
    /\ ret = Return(<<"d", "e", "f", "a", "u", "l", "t", "-", "s", "r", "c", " ", "'", "s", "e", "l", "f", "'", " ", "a", ";", " ", "s", "a", "n", "d", "b", "o", "x">>)

\* C13: with a comparator as first argument (one that returns a number for
\* every pair) the order of the clauses is that of the comparator alone, and
\* nothing else depends on it: the result holds one clause for each clause
\* given, each formatPolicyDirective of that clause, its values in the
\* caller's order and only trimmed.
C13_CustomComparatorOrdersClauses ==
    (IsListCall /\ call.args[1].type = "function" /\ ~Throwing(call.args[1].value)) =>
        /\ Returned
        /\ IsPermutationOf(sorted, CallClauses)
        /\ \A i, j \in 1..Len(sorted) :
               i < j => Compare(call.args[1].value, sorted[i][1], sorted[j][1]) <= 0
        /\ IsClauseList(ret.value, sorted)

\* reverse alphabetical: script-src before default-src
C13_Witness ==
    /\ IsListCall
    /\ call.args[1].type = "function"
    /\ call.args[1].value = "reverse"
    /\ call.args[2] = << <<<<"d", "e", "f", "a", "u", "l", "t", "-", "s", "r", "c">>, <<" ", "'", "s", "e", "l", "f", "'", " ">>, <<"a">>>>, <<<<"s", "c", "r", "i", "p", "t", "-", "s", "r", "c">>>> >>
    /\ ret = Return(<<"s", "c", "r", "i", "p", "t", "-", "s", "r", "c", ";", " ", "d", "e", "f", "a", "u", "l", "t", "-", "s", "r", "c", " ", "'", "s", "e", "l", "f", "'", " ", "a">>)

\* C14: sorting any arrangement of all the catalog directives with
\* sortDirectives gives DIRECTIVE_SORT_ORDER.
C14_SortingCatalogGivesSortOrder ==
    (IsSortCall /\ IsPermutationOfCatalog(call.args[1])) => ret = Return(sortOrder)

\* the catalog backwards
C14_Witness ==
    /\ IsSortCall
    /\ call.args[1][1] = <<"u", "p", "g", "r", "a", "d", "e", "-", "i", "n", "s", "e", "c", "u", "r", "e", "-", "r", "e", "q", "u", "e", "s", "t", "s">>
    /\ call.args[1][Len(call.args[1])] = <<"c", "h", "i", "l", "d", "-", "s", "r", "c">>
    /\ ret.value[1] = <<"d", "e", "f", "a", "u", "l", "t", "-", "s", "r", "c">>
    /\ ret.value = sortOrder

\* array holds exactly the names, in alphabetical order
IsAlphabetical(array, names) ==
    /\ {array[i] : i \in 1..Len(array)} = names
    /\ \A i \in 2..Len(array) : LocaleCompare(array[i - 1], array[i]) < 0

\* the order that is said of DIRECTIVE_SORT_ORDER, written out
ExpectedSortOrder ==
    <<<<"d", "e", "f", "a", "u", "l", "t", "-", "s", "r", "c">>, <<"s", "c", "r", "i", "p", "t", "-", "s", "r", "c">>, <<"s", "t", "y", "l", "e", "-", "s", "r", "c">>, <<"i", "m", "g", "-", "s", "r", "c">>, <<"f", "o", "n", "t", "-", "s", "r", "c">>,
      <<"c", "h", "i", "l", "d", "-", "s", "r", "c">>, <<"c", "o", "n", "n", "e", "c", "t", "-", "s", "r", "c">>, <<"f", "e", "n", "c", "e", "d", "-", "f", "r", "a", "m", "e", "-", "s", "r", "c">>, <<"f", "r", "a", "m", "e", "-", "s", "r", "c">>,
      <<"m", "a", "n", "i", "f", "e", "s", "t", "-", "s", "r", "c">>, <<"m", "e", "d", "i", "a", "-", "s", "r", "c">>, <<"o", "b", "j", "e", "c", "t", "-", "s", "r", "c">>, <<"p", "r", "e", "f", "e", "t", "c", "h", "-", "s", "r", "c">>,
      <<"s", "c", "r", "i", "p", "t", "-", "s", "r", "c", "-", "a", "t", "t", "r">>, <<"s", "c", "r", "i", "p", "t", "-", "s", "r", "c", "-", "e", "l", "e", "m">>, <<"s", "t", "y", "l", "e", "-", "s", "r", "c", "-", "a", "t", "t", "r">>, <<"s", "t", "y", "l", "e", "-", "s", "r", "c", "-", "e", "l", "e", "m">>,
      <<"w", "o", "r", "k", "e", "r", "-", "s", "r", "c">>,
      <<"f", "o", "r", "m", "-", "a", "c", "t", "i", "o", "n">>, <<"f", "r", "a", "m", "e", "-", "a", "n", "c", "e", "s", "t", "o", "r", "s">>,
      <<"r", "e", "q", "u", "i", "r", "e", "-", "t", "r", "u", "s", "t", "e", "d", "-", "t", "y", "p", "e", "s", "-", "f", "o", "r">>, <<"t", "r", "u", "s", "t", "e", "d", "-", "t", "y", "p", "e", "s">>, <<"u", "p", "g", "r", "a", "d", "e", "-", "i", "n", "s", "e", "c", "u", "r", "e", "-", "r", "e", "q", "u", "e", "s", "t", "s">>,
      <<"b", "a", "s", "e", "-", "u", "r", "i">>, <<"s", "a", "n", "d", "b", "o", "x">>,
      <<"r", "e", "p", "o", "r", "t", "-", "t", "o">>, <<"r", "e", "p", "o", "r", "t", "-", "u", "r", "i">>>>

\* ExpectedSortOrder is the five pinned fetch directives, then the other
\* fetch directives, the navigation, the other, the document and the
\* reporting directives of the catalog, each group whole and alphabetical
ExpectedSortOrderIsByCategory ==
    LET pinned == <<<<"d", "e", "f", "a", "u", "l", "t", "-", "s", "r", "c">>, <<"s", "c", "r", "i", "p", "t", "-", "s", "r", "c">>, <<"s", "t", "y", "l", "e", "-", "s", "r", "c">>, <<"i", "m", "g", "-", "s", "r", "c">>, <<"f", "o", "n", "t", "-", "s", "r", "c">>>>
        fetch == EnumValues(FetchDirective)
        fetchRest == fetch \ {pinned[i] : i \in 1..Len(pinned)}
        navigation == EnumValues(NavigationDirective)
        other == EnumValues(OtherDirective)
        document == EnumValues(DocumentDirective)
        reporting == EnumValues(ReportingDirective)
        afterPinned == Len(pinned)
        afterFetch == afterPinned + Cardinality(fetchRest)
        afterNavigation == afterFetch + Cardinality(navigation)
        afterOther == afterNavigation + Cardinality(other)
        afterDocument == afterOther + Cardinality(document)
        order == ExpectedSortOrder
    IN /\ Len(order) = afterDocument + Cardinality(reporting)
       /\ SubSeq(order, 1, afterPinned) = pinned
       /\ \A i \in 1..Len(pinned) : pinned[i] \in fetch
       /\ IsAlphabetical(SubSeq(order, afterPinned + 1, afterFetch), fetchRest)
       /\ IsAlphabetical(SubSeq(order, afterFetch + 1, afterNavigation), navigation)
       /\ IsAlphabetical(SubSeq(order, afterNavigation + 1, afterOther), other)
       /\ IsAlphabetical(SubSeq(order, afterOther + 1, afterDocument), document)
       /\ IsAlphabetical(SubSeq(order, afterDocument + 1, Len(order)), reporting)
       /\ \A i \in 1..Len(order) : order[i] \in fetch <=> i <= afterFetch

\* C15: DIRECTIVE_SORT_ORDER is default-src, script-src, style-src, img-src,
\* font-src, then the other fetch directives, the navigation directives, the
\* other directives, the document directives and the reporting directives,
\* each group in alphabetical order; default-src is at position 0 and every
\* fetch directive stands before every directive that is no fetch directive.
C15_DirectiveSortOrder ==
    /\ sortOrder = ExpectedSortOrder
    /\ ExpectedSortOrderIsByCategory
    /\ IndexOf(sortOrder, <<"d", "e", "f", "a", "u", "l", "t", "-", "s", "r", "c">>) = 0

\* the last fetch directive compared with the first navigation directive
C15_Witness ==
    /\ IsSortDirectivesCall
    /\ call.args = <<<<"w", "o", "r", "k", "e", "r", "-", "s", "r", "c">>, <<"f", "o", "r", "m", "-", "a", "c", "t", "i", "o", "n">>>>
    /\ sortOrder[18] = <<"w", "o", "r", "k", "e", "r", "-", "s", "r", "c">>
    /\ sortOrder[19] = <<"f", "o", "r", "m", "-", "a", "c", "t", "i", "o", "n">>
    /\ ret = Return(-1)

\* a comes before b in DIRECTIVE_SORT_ORDER
Precedes(a, b) ==
    \E i, j \in 1..Len(sortOrder) : i < j /\ sortOrder[i] = a /\ sortOrder[j] = b

\* C16: over the catalog, sortDirectives is a strict total order that agrees
\* with DIRECTIVE_SORT_ORDER: it gives 0 exactly for a = b, a negative number
\* exactly when a comes before b in DIRECTIVE_SORT_ORDER, the negated number
\* for the swapped arguments, and it is transitive.
C16_SortDirectivesTotalOrder ==
    (IsSortDirectivesCall /\ call.args[1] \in Directive /\ call.args[2] \in Directive) =>
        LET a == call.args[1]
            b == call.args[2]
        IN /\ Returned
           /\ ret.value = 0 <=> a = b
           /\ ret.value < 0 <=> Precedes(a, b)
           /\ ret.value > 0 <=> Precedes(b, a)
           /\ ret.value = 0 - sortDirectives(b, a)
           /\ \A c \in Directive :
                  (ret.value < 0 /\ sortDirectives(b, c) < 0) => sortDirectives(a, c) < 0

\* two directives of different categories, the later one first
C16_Witness ==
    /\ IsSortDirectivesCall
    /\ call.args = <<<<"r", "e", "p", "o", "r", "t", "-", "u", "r", "i">>, <<"d", "e", "f", "a", "u", "l", "t", "-", "s", "r", "c">>>>
    /\ ret = Return(26)

\* C17: the text formatPolicyDirectiveList returns has the shape of a
\* directive list, also when values are empty or only whitespace: clauses are
\* separated by "; ", names and values by one space, and nothing follows the
\* last value: no space stands at the end or before another space or before
\* a separator, and every ";" is followed by a space.
C17_DirectiveListShape ==
    (IsListCall /\ Returned) =>
        LET text == ret.value
        IN /\ text # <<>> => text[Len(text)] \notin {" ", ";"}
           /\ \A i \in 1..(Len(text) - 1) :
               /\ text[i] = " " => text[i + 1] \notin {" ", ";"}
               /\ text[i] = ";" => text[i + 1] = " "

\* the SHA algorithms of the library
SupportedAlgorithms == {<<"S", "H", "A", "-", "2", "5", "6">>, <<"S", "H", "A", "-", "3", "8", "4">>, <<"S", "H", "A", "-", "5", "1", "2">>}

Settled == ret.kind \in {"return", "throw"}

\* C18: hashSource with an algorithm that is not SHA-256, SHA-384 or SHA-512
\* fails with the invalid-algorithm error of formatHashValue.
C18_HashSourceInvalidAlgorithm ==
    (IsHashSourceCall /\ Settled /\ call.args[1] \notin SupportedAlgorithms) =>
        ret = Throw(<<"I", "n", "v", "a", "l", "i", "d", " ", "h", "a", "s", "h", " ", "a", "l", "g", "o", "r", "i", "t", "h", "m", ":", " ">> \o call.args[1])

\* the number of bytes of each digest
DigestBytes == (<<"S", "H", "A", "-", "2", "5", "6">> :> 32) @@ (<<"S", "H", "A", "-", "3", "8", "4">> :> 48) @@ (<<"S", "H", "A", "-", "5", "1", "2">> :> 64)

\* the number of characters said of each base64 text
Base64Characters == (<<"S", "H", "A", "-", "2", "5", "6">> :> 44) @@ (<<"S", "H", "A", "-", "3", "8", "4">> :> 64) @@ (<<"S", "H", "A", "-", "5", "1", "2">> :> 88)

\* the least number of threes that hold n
ThirdsUp(n) == CHOOSE k \in 0..n : 3 * k >= n /\ 3 * (k - 1) < n

\* C19: for every source, the base64 text hashSource resolves to has 44
\* characters for SHA-256, 64 for SHA-384 and 88 for SHA-512: four for each
\* three bytes of the digest, begun or whole, the padding counted.
C19_HashSourceLength ==
    (IsHashSourceCall /\ Settled /\ call.args[1] \in SupportedAlgorithms) =>
        LET n == DigestBytes[call.args[1]]
            padding == 3 * ThirdsUp(n) - n
        IN /\ Returned
           /\ Len(ret.value) = Base64Characters[call.args[1]]
           /\ Len(ret.value) = 4 * ThirdsUp(n)
           /\ \A i \in 1..Len(ret.value) :
                  IF i > Len(ret.value) - padding THEN ret.value[i] = "="
                  ELSE Includes(Base64Alphabet, ret.value[i])

\* a SHA-512 digest: 88 characters, the last two padding
C19_Witness ==
    /\ IsHashSourceCall
    /\ call.args = <<<<"S", "H", "A", "-", "5", "1", "2">>, <<"a">>>>
    /\ Returned
    /\ Len(ret.value) = 88
    /\ SubSeq(ret.value, 87, 88) = <<"=", "=">>

\* the bytes that a base64 text without padding stands for
Base64Decode(text) ==
    LET value(p) == IndexOf(Base64Alphabet, text[p])
        triple(g) == value(4 * g - 3) * 262144 + value(4 * g - 2) * 4096
                         + value(4 * g - 1) * 64 + value(4 * g)
    IN [k \in 1..(3 * (Len(text) \div 4)) |->
           LET g == ((k - 1) \div 3) + 1
           IN (triple(g) \div <<65536, 256, 1>>[((k - 1) % 3) + 1]) % 256]

\* bytes are the characters of a UUID: hexadecimal digits in groups of 8, 4,
\* 4, 4 and 12 with dashes between the groups
IsUUIDBytes(bytes) ==
    /\ Len(bytes) = 36
    /\ \A i \in 1..Len(bytes) :
        IF i \in {9, 14, 19, 24} THEN bytes[i] = 45
        ELSE bytes[i] \in (48..57) \cup (97..102)

\* C20: randomNonce returns 48 characters, the base64 text of the 36 bytes of
\* a UUID, with no padding character.
C20_RandomNonceLength ==
    IsRandomNonceCall =>
        /\ Returned
        /\ Len(ret.value) = 48
        /\ \A i \in 1..Len(ret.value) : Includes(Base64Alphabet, ret.value[i])
        /\ IsUUIDBytes(Base64Decode(ret.value))

\* the nonce of the UUID 00000000-0000-4000-8000-000000000000
C20_Witness ==
    /\ IsRandomNonceCall
    /\ Returned
    /\ Len(ret.value) = 48
    /\ SubSeq(ret.value, 1, 12) = <<"M", "D", "A", "w", "M", "D", "A", "w", "M", "D", "A", "t">>

----------------------------------------------------------------------------
(* Claims C21..C30 *)

IsString(v) == \A i \in 1..Len(v) : v[i] \in STRING

\* every hash descriptor of the config names a supported algorithm
HashesSupported ==
    \A i \in 1..Len(ConfigHashes) : ConfigHashes[i].algorithm \in SupportedAlgorithms

\* an Error of formatHashValue
IsInvalidAlgorithm(outcome) ==
    /\ outcome.kind = "throw"
    /\ IsPrefixOf(<<"I", "n", "v", "a", "l", "i", "d", " ", "h", "a", "s", "h", " ", "a", "l", "g", "o", "r", "i", "t", "h", "m", ":", " ">>, outcome.value)

\* C22: the formatting operations raise no error but the invalid-algorithm
\* error: configToSourceExpressionList returns a string for every config
\* whose hash descriptors all name a supported algorithm, whatever its hosts
\* and whatever other keys its sections carry, and for the empty config;
\* formatNonceValue and formatPolicyDirective return a string for every
\* input; an error of formatHashValue or configToSourceExpressionList is the
\* invalid-algorithm error.
C22_NoErrorButInvalidAlgorithm ==
    /\ (IsConfigCall /\ HashesSupported) => (Returned /\ IsString(ret.value))
    /\ (IsNonceCall \/ IsDirectiveCall) => (Returned /\ IsString(ret.value))
    /\ ((IsConfigCall \/ IsHashCall) /\ Threw) => IsInvalidAlgorithm(ret)

\* a config with a key of the prototype chain and a supported hash
C22_Witness ==
    /\ IsConfigCall
    /\ \E i \in 1..Len(ConfigUnsafe) : ConfigUnsafe[i] = <<<<"c", "o", "n", "s", "t", "r", "u", "c", "t", "o", "r">>, "true">>
    /\ ConfigHashes = <<[algorithm |-> <<"S", "H", "A", "-", "3", "8", "4">>, hash |-> <<" ", "a", " ">>]>>
    /\ Returned
    /\ IsString(ret.value)
    /\ ret.value # <<>>

\* the number of members of the five enums together
CategorySizes ==
    Cardinality(DOMAIN FetchDirective) + Cardinality(DOMAIN DocumentDirective)
    + Cardinality(DOMAIN NavigationDirective) + Cardinality(DOMAIN ReportingDirective)
    + Cardinality(DOMAIN OtherDirective)

\* in how many of the five enums the directive is a value
CategoriesOf(d) ==
    Cardinality({k \in 1..5 :
        d \in <<EnumValues(FetchDirective), EnumValues(DocumentDirective),
                EnumValues(NavigationDirective), EnumValues(ReportingDirective),
                EnumValues(OtherDirective)>>[k]})

\* every directive is a value of exactly one enum, and no two members of
\* the enums have the same value
CatalogIsPartitioned ==
    /\ \A d \in Directive : CategoriesOf(d) = 1
    /\ Cardinality(Directive) = CategorySizes

\* C23: every catalog directive is in exactly one of the five categories and
\* no two directives share a name; DIRECTIVE_SORT_ORDER holds every catalog
\* directive and nothing else, and its length is the sum of the sizes of the
\* five categories, which is the number of directives: each is held once.
C23_SortOrderIsPermutationOfCatalog ==
    /\ CatalogIsPartitioned
    /\ Len(sortOrder) = CategorySizes
    /\ {sortOrder[i] : i \in 1..Len(sortOrder)} = Directive

\* the array as sortDirectives reads it: 27 directives, each found once
C23_Witness ==
    /\ IsSortDirectivesCall
    /\ call.args = <<<<"d", "e", "f", "a", "u", "l", "t", "-", "s", "r", "c">>, <<"r", "e", "p", "o", "r", "t", "-", "u", "r", "i">>>>
    /\ Len(sortOrder) = 27
    /\ sortOrder[1] = <<"d", "e", "f", "a", "u", "l", "t", "-", "s", "r", "c">>
    /\ sortOrder[27] = <<"r", "e", "p", "o", "r", "t", "-", "u", "r", "i">>
    /\ ret.value = -26

\* the comparator a formatPolicyDirectiveList call sorts with
CallComparator ==
    IF call.args[1].type = "function" THEN call.args[1].value ELSE "sortDirectives"

\* the permutations of 1..n
Orders(n) == {p \in [1..n -> 1..n] : \A i, j \in 1..n : p[i] = p[j] => i = j}

\* C24: formatPolicyDirectiveList sorts stably: the output holds one
\* formatted clause for each clause of the call, none merged or dropped, and
\* clauses whose directives compare equal under the comparator, such as two
\* clauses of one directive, stand in the order the caller gave them.
C24_StableSort ==
    (IsListCall /\ Returned) =>
        /\ Len(sorted) = Len(CallClauses)
        /\ IsClauseList(ret.value, sorted)
        /\ \E p \in Orders(Len(sorted)) :
            /\ \A i \in 1..Len(sorted) : sorted[i] = CallClauses[p[i]]
            /\ \A i, j \in 1..Len(sorted) :
                   (i < j /\ Compare(CallComparator, sorted[i][1], sorted[j][1]) = 0)
                       => p[i] < p[j]

\* two clauses of default-src, the one with values first
C24_Witness ==
    /\ IsListCall
    /\ call.args[1].type = "function"
    /\ call.args[1].value = "reverse"
    /\ call.args[2] = << <<<<"d", "e", "f", "a", "u", "l", "t", "-", "s", "r", "c">>, <<" ", "'", "s", "e", "l", "f", "'", " ">>, <<"a">>>>, <<<<"d", "e", "f", "a", "u", "l", "t", "-", "s", "r", "c">>>> >>
    /\ ret = Return(<<"d", "e", "f", "a", "u", "l", "t", "-", "s", "r", "c", " ", "'", "s", "e", "l", "f", "'", " ", "a", ";", " ", "d", "e", "f", "a", "u", "l", "t", "-", "s", "r", "c">>)

\* the first hash descriptor of the config whose algorithm is not supported
FirstUnsupported ==
    LET at == {i \in 1..Len(ConfigHashes) :
                  ConfigHashes[i].algorithm \notin SupportedAlgorithms}
    IN ConfigHashes[CHOOSE i \in at : \A j \in at : i <= j]

\* C25: when some hash descriptor of the config has an unsupported
\* algorithm, configToSourceExpressionList fails with the invalid-algorithm
\* error of formatHashValue, wherever the descriptor stands in the list and
\* whatever the other properties are: no string is returned and the
\* descriptor is not left out.
C25_ConfigInvalidAlgorithmThrows ==
    (IsConfigCall /\ ~HashesSupported) =>
        ret = Throw(<<"I", "n", "v", "a", "l", "i", "d", " ", "h", "a", "s", "h", " ", "a", "l", "g", "o", "r", "i", "t", "h", "m", ":", " ">> \o FirstUnsupported.algorithm)

\* the unsupported descriptor is the second of the list
C25_Witness ==
    /\ IsConfigCall
    /\ ConfigHashes = <<[algorithm |-> <<"S", "H", "A", "-", "2", "5", "6">>, hash |-> <<" ", "a", " ">>],
                        [algorithm |-> <<"M", "D", "5">>, hash |-> <<" ", "a", " ">>]>>
    /\ ret = Throw(<<"I", "n", "v", "a", "l", "i", "d", " ", "h", "a", "s", "h", " ", "a", "l", "g", "o", "r", "i", "t", "h", "m", ":", " ", "M", "D", "5">>)

\* the functions of the library that sort or format
FormattingFunctions ==
    {"sortDirectives", "configToSourceExpressionList", "formatPolicyDirective",
     "formatPolicyDirectiveList", "formatHashValue", "formatNonceValue"}

\* C26: after any sequence of calls of sortDirectives,
\* configToSourceExpressionList, formatPolicyDirective,
\* formatPolicyDirectiveList, formatHashValue and formatNonceValue, the arrays
\* DIRECTIVE_SORT_ORDER and FETCH_DIRECTIVE_CUSTOM_ORDER and the two keyword
\* maps are what they were when the modules were loaded, and the arguments
\* of the call (the config, the clauses) are what the caller handed in.
\* ExpectedSortOrder is the value DIRECTIVE_SORT_ORDER has in the first state.
C26_ModulesAndArgumentsUnchanged ==
    /\ sortOrder = ExpectedSortOrder
    /\ fetchOrder = FETCH_DIRECTIVE_CUSTOM_ORDER
    /\ unsafeKeywordMap = UNSAFE_KEYWORD_MAP
    /\ schemeKeywordMap = SCHEME_KEYWORD_MAP
    /\ call.fn \in FormattingFunctions => arguments = call.args

\* a call whose clauses are not in sorted order: the sorted copy differs
\* from the argument, the argument is as it was
C26_Witness ==
    /\ IsListCall
    /\ call.args[1].type = "function"
    /\ call.args[1].value = "reverse"
    /\ call.args[2] = << <<<<"d", "e", "f", "a", "u", "l", "t", "-", "s", "r", "c">>>>, <<<<"s", "c", "r", "i", "p", "t", "-", "s", "r", "c">>>> >>
    /\ sorted = << <<<<"s", "c", "r", "i", "p", "t", "-", "s", "r", "c">>>>, <<<<"d", "e", "f", "a", "u", "l", "t", "-", "s", "r", "c">>>> >>
    /\ arguments = call.args
    /\ sortOrder = ExpectedSortOrder

\* the promise of the i-th of the calls issued together is settled
IsSettled(i) == promises[i].ret.kind \in {"return", "throw"}

C28_ComparatorAndNoClauses ==
    (IsListCall /\ call.args[1].type = "function" /\ call.args[2] = <<>>) =>
        ret = Return(<<>>)

\* the comparator would throw if it were called
C28_Witness ==
    /\ IsListCall
    /\ call.args[1].type = "function"
    /\ call.args[1].value = "throwing"
    /\ call.args[2] = <<>>
    /\ ret = Return(<<>>)

\* C29: formatPolicyDirectiveList called with no arguments does not return
\* the empty string: the missing first argument is handed on as a clause to
\* the call with sortDirectives, and the call fails with a TypeError when
\* that undefined clause is formatted.
C29_NoArgumentsThrows ==
    (IsListCall /\ call.args[1].type = "undefined") =>
        /\ sorted = <<Undefined>>
        /\ ret = Throw(<<"T", "y", "p", "e", "E", "r", "r", "o", "r", ":", " ", "u", "n", "d", "e", "f", "i", "n", "e", "d", " ", "i", "s", " ", "n", "o", "t", " ", "i", "t", "e", "r", "a", "b", "l", "e">>)

\* the call formatPolicyDirectiveList()
C29_Witness ==
    /\ IsListCall
    /\ call.args[1].type = "undefined"
    /\ call.args[2] = <<>>
    /\ Threw
    /\ ret.value # <<>>

\* the clauses of a list whose directive is not in the catalog
UnknownClauses(clauses) == SelectSeq(clauses, LAMBDA c : c[1] \notin Directive)

\* C30: for a directive that is not in the catalog sortDirectives takes the
\* position -1 and returns a number: the directive compares before every
\* catalog directive and equal to every other directive that is not in the
\* catalog; so formatPolicyDirectiveList without a comparator puts the
\* clauses of such directives first, in the order the caller gave them.
C30_UnknownDirectivesFirst ==
    /\ (IsSortDirectivesCall /\ call.args[1] \notin Directive) =>
           IF call.args[2] \in Directive
           THEN /\ ret.value = -1 - IndexOf(sortOrder, call.args[2])
                /\ ret.value < 0
           ELSE ret.value = 0
    /\ (IsListCall /\ call.args[1].type = "object") =>
           /\ Returned
           /\ \A i, j \in 1..Len(sorted) :
                  (sorted[i][1] \notin Directive /\ sorted[j][1] \in Directive) => i < j
           /\ UnknownClauses(sorted) = UnknownClauses(CallClauses)

\* foo is given before bar and stays before it
C30_Witness ==
    /\ IsListCall
    /\ call.args[1].type = "object"
    /\ call.args[1].value = <<<<"f", "o", "o">>>>
    /\ call.args[2] = << <<<<"b", "a", "r">>>> >>
    /\ ret = Return(<<"f", "o", "o", ";", " ", "b", "a", "r">>)
====
